---- MODULE Spec2Model ----
(***************************************************************************)
(* Model of the knowledge-base retriever of the agentic RAG chatbot:       *)
(*   - POST/GET /api/knowledge with its process-wide index cache           *)
(*     (knowledgeBaseIndex), the index builder and the 18-factor scorer;   *)
(*   - the chat route's lazily initialised DynamicSearchEngine.            *)
(* Text is modelled as TLA+ strings, processed character by character.     *)
(* JavaScript numbers are modelled in fixed point: scores in thousandths   *)
(* (milli), IDF / TF-IDF / similarities in millionths (micro).             *)
(* Each action is one run-to-completion segment of a request handler,      *)
(* i.e. the code between two awaits of the Node.js event loop.             *)
(***************************************************************************)
EXTENDS Integers, Sequences, FiniteSets, TLC

VARIABLES
  now,                 \* Date.now(), in milliseconds
  disk,                \* the document source: the knowledge-base directory
  knowledgeBaseIndex,  \* the global index cache of the knowledge route
  req,                 \* the POST /api/knowledge requests in flight
  info,                \* the last GET /api/knowledge report
  dynamicSearchEngine, \* the global engine of the chat route
  chat,                \* the chat requests in flight
  hist                 \* history: what the handlers did (observation only)

vars == <<now, disk, knowledgeBaseIndex, req, info, dynamicSearchEngine, chat, hist>>

-----------------------------------------------------------------------------
(* Bounds of the model *)

MaxTicks == 2          \* how many times the clock advances
MaxDiskChanges == 1    \* how many times the document source changes
MaxRequests == 2       \* how many requests are received, over both routes

-----------------------------------------------------------------------------
(* Program constants *)

MAX_RESULTS == 5
MAX_CONTENT_LENGTH == 4000
CACHE_TTL == 5 * 60 * 1000
HARD_MAX_RESULTS == 10
MIN_QUERY_LENGTH == 2
MAX_QUERY_LENGTH == 500
TOKEN_CAP == 1000
EMBEDDING_SIZE == 50

\* the back quote cannot be written in a TLA+ string: the model writes it "~"
BackQuote == "~"

NULL == [null |-> TRUE]

\* a JavaScript number that may be NaN; v is the value otherwise
Num(v) == [nan |-> FALSE, v |-> v]
NaN == [nan |-> TRUE, v |-> 0]

-----------------------------------------------------------------------------
(* Strings *)

\* s.substring(i - 1, j), positions counted from 1 and clipped to the string
Sub(s, i, j) ==
  LET from == IF i < 1 THEN 1 ELSE i
      to == IF j > Len(s) THEN Len(s) ELSE j
  IN IF from > to THEN "" ELSE SubSeq(s, from, to)

Char(s, i) == IF i < 1 \/ i > Len(s) THEN "" ELSE SubSeq(s, i, i)

UpperChars == "ABCDEFGHIJKLMNOPQRSTUVWXYZ"
LowerChars == "abcdefghijklmnopqrstuvwxyz"
DigitChars == "0123456789"

CharsOf(s) == {Char(s, i) : i \in 1..Len(s)}

UpperSet == CharsOf(UpperChars)
LowerSet == CharsOf(LowerChars)
DigitSet == CharsOf(DigitChars)

\* \w of a JavaScript regular expression
WordCharSet == UpperSet \cup LowerSet \cup DigitSet \cup {"_"}

\* \s of a JavaScript regular expression (the characters the model uses)
SpaceSet == {" ", "\n", "\t"}

\* code-unit order of the characters the model uses (String.prototype.sort)
CharOrder == "\t\n !#*+-./0123456789:ABCDEFGHIJKLMNOPQRSTUVWXYZ_abcdefghijklmnopqrstuvwxyz~"

IndexOfChar(c, s) ==
  IF \E i \in 1..Len(s) : Char(s, i) = c
  THEN CHOOSE i \in 1..Len(s) : Char(s, i) = c
  ELSE 0

LowerChar(c) == IF c \in UpperSet THEN Char(LowerChars, IndexOfChar(c, UpperChars)) ELSE c

\* s.toLowerCase(), by halves to keep the evaluation shallow
RECURSIVE toLowerCase(_)
toLowerCase(s) ==
  IF Len(s) = 0 THEN ""
  ELSE IF Len(s) = 1 THEN LowerChar(s)
  ELSE LET h == Len(s) \div 2
       IN toLowerCase(Sub(s, 1, h)) \o toLowerCase(Sub(s, h + 1, Len(s)))

\* s.includes(w)
Includes(s, w) == \E i \in 1..(Len(s) - Len(w) + 1) : SubSeq(s, i, i + Len(w) - 1) = w

\* s.indexOf(w), 1-based; 0 when absent
IndexOf(s, w) ==
  IF Includes(s, w)
  THEN CHOOSE i \in 1..(Len(s) - Len(w) + 1) :
         /\ Sub(s, i, i + Len(w) - 1) = w
         /\ \A j \in 1..(i - 1) : Sub(s, j, j + Len(w) - 1) # w
  ELSE 0

StartsWith(s, w) == Len(s) >= Len(w) /\ Sub(s, 1, Len(w)) = w
EndsWith(s, w) == Len(s) >= Len(w) /\ Sub(s, Len(s) - Len(w) + 1, Len(s)) = w

\* s.replace(w, r) with a string pattern: the first occurrence only
ReplaceFirst(s, w, r) ==
  LET i == IndexOf(s, w)
  IN IF i = 0 THEN s ELSE Sub(s, 1, i - 1) \o r \o Sub(s, i + Len(w), Len(s))

IsSpaceAt(s, i) == Char(s, i) \in SpaceSet

\* s.trim()
Trim(s) ==
  LET ink == {i \in 1..Len(s) : ~IsSpaceAt(s, i)}
  IN IF ink = {} THEN ""
     ELSE Sub(s, CHOOSE i \in ink : \A j \in ink : i <= j,
                    CHOOSE i \in ink : \A j \in ink : i >= j)

\* the elements of a set of integers from lo to hi, in increasing order (by halves)
RECURSIVE SortedBetween(_, _, _)
SortedBetween(S, lo, hi) ==
  IF lo > hi THEN <<>>
  ELSE IF lo = hi THEN (IF lo \in S THEN <<lo>> ELSE <<>>)
  ELSE LET h == (lo + hi) \div 2
       IN SortedBetween(S, lo, h) \o SortedBetween(S, h + 1, hi)

\* the piece that starts at position from and ends before the first separator;
\* next is where the following piece starts
PieceFrom(s, seps, from, next) ==
  LET stops == {j \in from..(next - 1) : j \in seps}
  IN Sub(s, from,
         (IF stops = {} THEN next ELSE CHOOSE j \in stops : \A k \in stops : j <= k) - 1)

PiecesAt(s, seps, order) ==
  [k \in 1..Len(order) |->
     PieceFrom(s, seps, order[k], IF k < Len(order) THEN order[k + 1] ELSE Len(s) + 1)]

\* the pieces of s between the positions of seps, a run of separators counting
\* once when merge is TRUE: s.split(/\s+/) and s.split('\n')
SplitAt(s, seps, merge) ==
  PiecesAt(s, seps,
           SortedBetween({i \in 1..(Len(s) + 1) :
                            /\ i = 1 \/ (i - 1) \in seps
                            /\ ~merge \/ i \notin seps \/ i = 1},
                         1, Len(s) + 1))

\* s.split(/\s+/): a leading or trailing run of white space yields an empty string
SplitWs(s) == SplitAt(s, {i \in 1..Len(s) : IsSpaceAt(s, i)}, TRUE)

\* s.split('\n')
Lines(s) == SplitAt(s, {i \in 1..Len(s) : Char(s, i) = "\n"}, FALSE)

\* s.replace(/[^\w\s]/g, ' ')
RECURSIVE ReplaceNonWord(_)
ReplaceNonWord(s) ==
  IF Len(s) = 0 THEN ""
  ELSE IF Len(s) = 1 THEN (IF s \in WordCharSet \cup SpaceSet THEN s ELSE " ")
  ELSE LET h == Len(s) \div 2
       IN ReplaceNonWord(Sub(s, 1, h)) \o ReplaceNonWord(Sub(s, h + 1, Len(s)))

\* a string of n copies of s
RECURSIVE Repeat(_, _)
Repeat(s, n) ==
  IF n <= 0 THEN ""
  ELSE IF n = 1 THEN s
  ELSE Repeat(s, n \div 2) \o Repeat(s, n - (n \div 2))

\* sequences
SeqToSet(q) == {q[i] : i \in 1..Len(q)}
InSeq(x, q) == \E i \in 1..Len(q) : q[i] = x
AddUnique(q, x) == IF InSeq(x, q) THEN q ELSE Append(q, x)

\* the positions of xs that hold an element for the first time, q counted before xs
FirstsOf(q, xs) ==
  {i \in 1..Len(xs) : ~InSeq(xs[i], q) /\ \A j \in 1..(i - 1) : xs[j] # xs[i]}

PickAll(xs, order) == [k \in 1..Len(order) |-> xs[order[k]]]

\* q with every element of xs added in order, unless it is there already
AddAllUnique(q, xs) == q \o PickAll(xs, SortedBetween(FirstsOf(q, xs), 1, Len(xs)))

Min(a, b) == IF a <= b THEN a ELSE b
Max(a, b) == IF a >= b THEN a ELSE b

\* array.slice(0, n) of JavaScript: a negative n counts from the end
Slice0(q, n) ==
  LET e == IF n < 0 THEN Max(Len(q) + n, 0) ELSE Min(n, Len(q))
  IN SubSeq(q, 1, e)

-----------------------------------------------------------------------------
(* Tokenizer *)

stopWords ==
  {"what", "is", "are", "the", "how", "why", "when", "where", "can", "could", "would",
   "should", "do", "does", "did", "a", "an", "and", "or", "but", "in", "on", "at", "to",
   "for", "of", "with", "by", "from", "about", "search", "find", "tell", "me", "give",
   "show", "explain", "describe", "want", "know", "need", "help", "this", "that",
   "these", "those", "i", "you", "he", "she", "it", "we", "they"}

\* a filter that keeps the stop words
LongerThanTwo(word) == Len(word) > 2

TokenFilter(word) == Len(word) > 2 /\ word \notin stopWords

tokenizeAndNormalize(text) ==
  Slice0(SelectSeq(SplitWs(ReplaceNonWord(toLowerCase(text))), TokenFilter), TOKEN_CAP)

-----------------------------------------------------------------------------
(* Document loader / parser *)

\* the characters of s at the positions of keep, in order (by halves)
RECURSIVE KeepChars(_, _, _, _)
KeepChars(s, keep, lo, hi) ==
  IF lo > hi THEN ""
  ELSE IF lo = hi THEN (IF lo \in keep THEN Char(s, lo) ELSE "")
  ELSE LET h == (lo + hi) \div 2
       IN KeepChars(s, keep, lo, h) \o KeepChars(s, keep, h + 1, hi)

\* s.replace(/\n{3,}/g, '\n\n')
CollapseNewlines(s) ==
  KeepChars(s, {i \in 1..Len(s) : ~(i >= 3 /\ Sub(s, i - 2, i) = "\n\n\n")}, 1, Len(s))

\* how many times the character c repeats in s from position i on
RunLength(s, i, c) ==
  LET stop == {j \in i..Len(s) : Char(s, j) # c}
  IN IF stop = {} THEN Len(s) - i + 1
     ELSE (CHOOSE j \in stop : \A k \in stop : j <= k) - i

\* the match of /c{1,m}([^c]+)c{1,m}/ that starts at position i of s, if any:
\* [from, to, inner], or NULL
PairMatchAt(s, i, c, m) ==
  LET k == RunLength(s, i, c)
      q == i + k
      marks == {j \in q..Len(s) : Char(s, j) = c}
  IN IF k = 0 \/ k > m \/ marks = {} THEN NULL
     ELSE LET close == CHOOSE j \in marks : \A x \in marks : j <= x
          IN [from |-> i, to |-> close + Min(RunLength(s, close, c), m) - 1,
              inner |-> Sub(s, q, close - 1)]

\* s.replace(/c{1,m}([^c]+)c{1,m}/g, '$1')
RECURSIVE StripPairs(_, _, _)
StripPairs(s, c, m) ==
  LET hits == {i \in 1..Len(s) : Char(s, i) = c /\ PairMatchAt(s, i, c, m) # NULL}
  IN IF hits = {} THEN s
     ELSE LET i == CHOOSE x \in hits : \A y \in hits : x <= y
              mt == PairMatchAt(s, i, c, m)
          IN Sub(s, 1, i - 1) \o mt.inner \o StripPairs(Sub(s, mt.to + 1, Len(s)), c, m)

\* end of the line that holds position p
LineEnd(s, p) ==
  LET nl == {j \in p..Len(s) : Char(s, j) = "\n"}
  IN IF nl = {} THEN Len(s) ELSE (CHOOSE j \in nl : \A k \in nl : j <= k) - 1

AtLineStart(s, i) == i = 1 \/ Char(s, i - 1) = "\n"

\* where the capture of /\s+(.+)$/m may start when the marker is at position h:
\* white space (greedy, line breaks included) up to a character that is no line break
CaptureStarts(s, h) ==
  {p \in (h + 2)..Len(s) :
     /\ \A j \in (h + 1)..(p - 1) : IsSpaceAt(s, j)
     /\ Char(s, p) # "\n"}

CaptureStart(s, h) == CHOOSE x \in CaptureStarts(s, h) : \A y \in CaptureStarts(s, h) : x >= y

\* a match of /^#{1,m}\s+(.+)$/m starts at position i
HeadingAt(s, i, m) ==
  /\ Char(s, i) = "#"
  /\ AtLineStart(s, i)
  /\ RunLength(s, i, "#") <= m
  /\ CaptureStarts(s, i + RunLength(s, i, "#") - 1) # {}

\* content.match(/^#\s+(.+)$/m): [all, title] of the first match, or NULL
TitleMatch(content) ==
  LET heads == {i \in 1..Len(content) : HeadingAt(content, i, 1)}
  IN IF heads = {} THEN NULL
     ELSE LET i == CHOOSE x \in heads : \A y \in heads : x <= y
              p == CaptureStart(content, i)
          IN [all |-> Sub(content, i, LineEnd(content, p)),
              title |-> Sub(content, p, LineEnd(content, p))]

NonEmptyLongerThan(q, k) == SelectSeq(q, LAMBDA w : Len(w) > k)

techKeywords ==
  <<"ai", "artificial intelligence", "machine learning", "ml", "deep learning",
    "data science", "analytics", "python", "javascript", "typescript", "react",
    "cloud", "aws", "azure", "docker", "kubernetes", "blockchain", "crypto",
    "cybersecurity", "security", "quantum", "computing", "algorithm", "database",
    "api", "web", "mobile", "devops", "agile", "scrum">>

\* filename.toLowerCase().replace('.md', '').split(/[-_\s]+/)
FilenameParts(filename) ==
  LET base == ReplaceFirst(toLowerCase(filename), ".md", "")
  IN SplitAt(base, {i \in 1..Len(base) : Char(base, i) \in SpaceSet \cup {"-", "_"}}, TRUE)

extractTags(title, content, filename) ==
  LET filenameTags == NonEmptyLongerThan(FilenameParts(filename), 2)
      titleWords == NonEmptyLongerThan(SplitWs(toLowerCase(title)), 3)
      lowerContent == toLowerCase(content)
      found == SelectSeq(techKeywords, LAMBDA keyword : Includes(lowerContent, keyword))
  IN Slice0(AddAllUnique(AddAllUnique(AddAllUnique(<<>>, filenameTags), titleWords), found), 10)

\* in thousandths
calculateRelevance(title, content, tags) ==
  LET score == 500
               + (IF Len(title) > 10 THEN 100 ELSE 0)
               + (IF Includes(title, "Fundamentals") \/ Includes(title, "Guide") THEN 100 ELSE 0)
               + (IF Len(content) > 500 THEN 100 ELSE 0)
               + (IF Len(content) > 1000 THEN 100 ELSE 0)
               + (IF Len(content) > 2000 THEN 100 ELSE 0)
               + Min(Len(tags) * 20, 200)
  IN Min(score, 1000)

\* s.replace(/[^a-z0-9]/g, '_')
RECURSIVE SanitizeId(_)
SanitizeId(s) ==
  IF Len(s) = 0 THEN ""
  ELSE IF Len(s) = 1 THEN (IF s \in LowerSet \cup DigitSet THEN s ELSE "_")
  ELSE LET h == Len(s) \div 2
       IN SanitizeId(Sub(s, 1, h)) \o SanitizeId(Sub(s, h + 1, Len(s)))

DocumentId(filename) == SanitizeId(toLowerCase(ReplaceFirst(filename, ".md", "")))

\* the document record, once title, content and tags are known
ParsedDocument(filename, title, cleanContent, tags) ==
  [id |-> DocumentId(filename),
   title |-> title,
   content |-> cleanContent,
   tags |-> tags,
   source |-> filename,
   relevance |-> calculateRelevance(title, cleanContent, tags)]

TaggedDocument(filename, title, cleanContent) ==
  ParsedDocument(filename, title, cleanContent, extractTags(title, cleanContent, filename))

\* the three replace calls and the trim that clean the content
CleanContent(body) ==
  Trim(StripPairs(StripPairs(CollapseNewlines(body), "*", 2), BackQuote, 1))

TitledDocument(content, filename, titleMatch) ==
  IF titleMatch # NULL
  THEN TaggedDocument(filename, Trim(titleMatch.title),
                      CleanContent(Trim(ReplaceFirst(content, titleMatch.all, ""))))
  ELSE TaggedDocument(filename, ReplaceFirst(filename, ".md", ""), CleanContent(content))

parseMarkdownDocument(content, filename) ==
  TitledDocument(content, filename, TitleMatch(content))

-----------------------------------------------------------------------------
(* Index builder *)

\* Math.log(k) in millionths, k = 1..24
LnTable ==
  <<0, 693147, 1098612, 1386294, 1609438, 1791759, 1945910, 2079442, 2197225, 2302585, 2397895, 2484907, 2564949, 2639057, 2708050, 2772589, 2833213, 2890372, 2944439, 2995732, 3044522, 3091042, 3135494, 3178054>>

\* Math.log(n / d) in millionths
LnRatio(n, d) == LnTable[n] - LnTable[d]

\* property names every plain JavaScript object inherits and a token can spell:
\* invertedIndex[word] is then a truthy value that has no .documents
ProtoKeys == {"constructor", "__proto__"}

Thrown == [thrown |-> TRUE]

CountIn(words, w) == Cardinality({i \in 1..Len(words) : words[i] = w})

extractTopicsFromFilename(filename) == NonEmptyLongerThan(FilenameParts(filename), 3)

\* the vocabulary is the one built so far, this document's words included
createSimpleEmbeddings(words, vocabulary) ==
  [index \in 1..Min(EMBEDDING_SIZE, Len(vocabulary)) |-> CountIn(words, vocabulary[index])]

\* documentIndex[docId] = entry: an existing key keeps its place
PutEntry(documentIndex, entry) ==
  IF \E i \in 1..Len(documentIndex) : documentIndex[i].id = entry.id
  THEN [i \in 1..Len(documentIndex) |->
          IF documentIndex[i].id = entry.id THEN entry ELSE documentIndex[i]]
  ELSE Append(documentIndex, entry)

EmptyBuild ==
  [invertedIndex |-> <<>>, documentIndex |-> <<>>, vocabulary |-> <<>>,
   totalDocumentLength |-> 0, threw |-> FALSE]

\* the body of documents.forEach(doc => ...)
\* invertedIndex[word].documents.add(doc.id) and .frequency++ for every word
Postings(old, docId, terms, termFrequency) ==
  [t \in DOMAIN old \cup terms |->
     IF t \notin terms THEN old[t]
     ELSE IF t \in DOMAIN old
     THEN [documents |-> AddUnique(old[t].documents, docId),
           frequency |-> old[t].frequency + termFrequency[t],
           idf |-> old[t].idf]
     ELSE [documents |-> <<docId>>, frequency |-> termFrequency[t], idf |-> 0]]

IndexWords(b, doc, words, vocabulary, termFrequency) ==
  [invertedIndex |-> Postings(b.invertedIndex, doc.id, DOMAIN termFrequency, termFrequency),
   documentIndex |->
     PutEntry(b.documentIndex,
              [id |-> doc.id,
               document |-> doc,
               termFrequency |-> termFrequency,
               tfidfVector |-> <<>>,
               length |-> Len(words),
               topics |-> extractTopicsFromFilename(doc.source),
               embeddings |-> createSimpleEmbeddings(words, vocabulary)]),
   vocabulary |-> vocabulary,
   totalDocumentLength |-> b.totalDocumentLength + Len(words),
   threw |-> FALSE]

\* a term-frequency map that records the presence of a term, not its count
PresenceOf(words) == [t \in SeqToSet(words) |-> 1]

TermFrequencyOf(words) == [t \in SeqToSet(words) |-> CountIn(words, t)]

IndexTokens(b, doc, words) ==
  IF b.threw \/ SeqToSet(words) \cap ProtoKeys # {} THEN [b EXCEPT !.threw = TRUE]
  ELSE IndexWords(b, doc, words, AddAllUnique(b.vocabulary, words), TermFrequencyOf(words))

IndexDocument(b, doc) ==
  IndexTokens(b, doc, tokenizeAndNormalize(toLowerCase(doc.title \o " " \o doc.content)))

RECURSIVE IndexDocuments(_, _)
IndexDocuments(b, documents) ==
  IF documents = <<>> THEN b
  ELSE IndexDocuments(IndexDocument(b, Head(documents)), Tail(documents))

\* vocabulary.forEach(term => invertedIndex[term].idf = Math.log(N / (1 + df)))
CalculateIdf(invertedIndex, n) ==
  [t \in DOMAIN invertedIndex |->
     [invertedIndex[t] EXCEPT !.idf = LnRatio(n, 1 + Len(invertedIndex[t].documents))]]

\* (tf / docEntry.length) * idf, in millionths
TfIdf(tf, length, idf) == (tf * idf) \div length

\* a build that installs the entries before the TF-IDF pass has run
SkipTfIdf(documentIndex, invertedIndex) == documentIndex

\* Object.values(documentIndex).forEach(docEntry => ... tfidfVector.set(term, tfidf))
CalculateTfIdf(documentIndex, invertedIndex) ==
  [i \in 1..Len(documentIndex) |->
     [documentIndex[i] EXCEPT !.tfidfVector =
        [t \in DOMAIN documentIndex[i].termFrequency |->
           TfIdf(documentIndex[i].termFrequency[t], documentIndex[i].length,
                 invertedIndex[t].idf)]]]

\* totalDocumentLength / documents.length, in thousandths; 0 / 0 is NaN
AverageLength(total, n) == IF n = 0 THEN NaN ELSE Num((total * 1000) \div n)

AssembleIndex(b, invertedIndex, totalDocuments, lastIndexed) ==
  [invertedIndex |-> invertedIndex,
   documentIndex |-> CalculateTfIdf(b.documentIndex, invertedIndex),
   totalDocuments |-> totalDocuments,
   vocabulary |-> b.vocabulary,
   averageDocumentLength |-> AverageLength(b.totalDocumentLength, totalDocuments),
   lastIndexed |-> lastIndexed]

\* the passes that follow documents.forEach
FinishIndex(b, totalDocuments, lastIndexed) ==
  IF b.threw THEN Thrown
  ELSE AssembleIndex(b, CalculateIdf(b.invertedIndex, totalDocuments), totalDocuments,
                     lastIndexed)

\* a builder whose running length total is not reset between builds
CarriedLength ==
  IF knowledgeBaseIndex = NULL \/ knowledgeBaseIndex.averageDocumentLength.nan THEN 0
  ELSE (knowledgeBaseIndex.averageDocumentLength.v * knowledgeBaseIndex.totalDocuments) \div 1000

BuildOnto(documents, lastIndexed) ==
  FinishIndex(IndexDocuments([EmptyBuild EXCEPT !.totalDocumentLength = CarriedLength],
                             documents),
              Len(documents), lastIndexed)

buildKnowledgeBaseIndex(documents, lastIndexed) ==
  FinishIndex(IndexDocuments(EmptyBuild, documents), Len(documents), lastIndexed)

createEmptyIndex(lastIndexed) ==
  [invertedIndex |-> <<>>,
   documentIndex |-> <<>>,
   totalDocuments |-> 0,
   vocabulary |-> <<>>,
   averageDocumentLength |-> Num(0),
   lastIndexed |-> lastIndexed]

-----------------------------------------------------------------------------
(* Pattern matching used by the scorer *)

MinOf(S) == CHOOSE x \in S : \A y \in S : x <= y
MaxOf(S) == CHOOSE x \in S : \A y \in S : x >= y

\* the captures of /^#{1,6}\s+(.+)$/gm found in s from position from on
RECURSIVE HeaderCaptures(_, _)
HeaderCaptures(s, from) ==
  LET heads == {i \in from..Len(s) : HeadingAt(s, i, 6)}
  IN IF heads = {} THEN <<>>
     ELSE LET i == MinOf(heads)
              p == CaptureStart(s, i + RunLength(s, i, "#") - 1)
          IN <<Sub(s, p, LineEnd(s, p))>> \o HeaderCaptures(s, LineEnd(s, p) + 1)

\* position of the list marker of a match of /^[\s]*[-*+]\s+(.+)$/m that starts at i
ListMarker(s, i) ==
  LET ink == {j \in i..Len(s) : ~IsSpaceAt(s, j)}
  IN IF ink = {} THEN 0 ELSE MinOf(ink)

ListItemAt(s, i) ==
  /\ AtLineStart(s, i)
  /\ ListMarker(s, i) # 0
  /\ Char(s, ListMarker(s, i)) \in {"-", "*", "+"}
  /\ CaptureStarts(s, ListMarker(s, i)) # {}

\* the captures of /^[\s]*[-*+]\s+(.+)$/gm found in s from position from on
RECURSIVE ListCaptures(_, _)
ListCaptures(s, from) ==
  LET items == {i \in from..Len(s) : ListItemAt(s, i)}
  IN IF items = {} THEN <<>>
     ELSE LET p == CaptureStart(s, ListMarker(s, MinOf(items)))
          IN <<Sub(s, p, LineEnd(s, p))>> \o ListCaptures(s, LineEnd(s, p) + 1)

Fence == BackQuote \o BackQuote \o BackQuote

\* last position of the match of a fenced block or of an inline code span that
\* starts at position i of s; 0 when none starts there
CodeEndAt(s, i) ==
  LET closes == {j \in (i + 3)..(Len(s) - 2) : Sub(s, j, j + 2) = Fence}
      stop == {j \in (i + 1)..Len(s) : Char(s, j) \in {BackQuote, "\n"}}
  IN IF Sub(s, i, i + 2) = Fence /\ closes # {} THEN MinOf(closes) + 2
     ELSE IF /\ Char(s, i) = BackQuote
             /\ stop # {}
             /\ MinOf(stop) > i + 1
             /\ Char(s, MinOf(stop)) = BackQuote
          THEN MinOf(stop)
          ELSE 0

\* the matches of the code pattern (fenced block, or inline span) in s from position from on
RECURSIVE CodeMatches(_, _)
CodeMatches(s, from) ==
  LET hits == {i \in from..Len(s) : CodeEndAt(s, i) # 0}
  IN IF hits = {} THEN <<>>
     ELSE LET i == MinOf(hits)
          IN <<Sub(s, i, CodeEndAt(s, i))>> \o CodeMatches(s, CodeEndAt(s, i) + 1)

\* last position of the match of new RegExp(word1 + '.{0,50}' + word2) that starts at
\* position i of s; 0 when none starts there
ProximityEndAt(s, i, word1, word2) ==
  LET a == i + Len(word1)
      ends == {j \in a..Min(a + 50, Len(s) - Len(word2) + 1) :
                 /\ Sub(s, j, j + Len(word2) - 1) = word2
                 /\ \A k \in a..(j - 1) : Char(s, k) # "\n"}
  IN IF Sub(s, i, a - 1) = word1 /\ ends # {} THEN MaxOf(ends) + Len(word2) - 1 ELSE 0

\* (s.match(new RegExp(word1 + '.{0,50}' + word2, 'gi')) || []).length, s in lower case
RECURSIVE ProximityMatches(_, _, _, _)
ProximityMatches(s, from, word1, word2) ==
  LET hits == {i \in from..Len(s) : ProximityEndAt(s, i, word1, word2) # 0}
  IN IF hits = {} THEN 0
     ELSE 1 + ProximityMatches(s, ProximityEndAt(s, MinOf(hits), word1, word2) + 1, word1, word2)

\* how many elements of q satisfy Test
CountSeq(q, Test(_)) == Cardinality({i \in 1..Len(q) : Test(q[i])})

\* sum of f over a finite set of indices
RECURSIVE SumOver(_, _)
SumOver(S, f) ==
  IF S = {} THEN 0
  ELSE LET x == CHOOSE y \in S : TRUE IN f[x] + SumOver(S \ {x}, f)

SumSeq(q) == SumOver(DOMAIN q, q)

\* largest r with r * r <= n, 0 <= n < 2^31
RECURSIVE IsqrtIn(_, _, _)
IsqrtIn(n, lo, hi) ==
  IF lo >= hi THEN lo
  ELSE LET mid == (lo + hi + 1) \div 2
       IN IF mid * mid <= n THEN IsqrtIn(n, mid, hi) ELSE IsqrtIn(n, lo, mid - 1)

Isqrt(n) == IsqrtIn(n, 0, 46340)

-----------------------------------------------------------------------------
(* Query processing and relevance scoring of the knowledge route.          *)
(* Scores are in thousandths, similarities in millionths.                  *)

synonymMap ==
  [ai |-> <<"artificial intelligence", "machine learning", "neural networks",
            "intelligent systems">>,
   ml |-> <<"machine learning", "artificial intelligence", "algorithms",
            "predictive models">>,
   data |-> <<"data science", "analytics", "datasets", "information">>,
   cloud |-> <<"cloud computing", "aws", "azure", "scalability", "distributed">>,
   security |-> <<"cybersecurity", "infosec", "encryption", "threats", "protection">>,
   web |-> <<"web development", "frontend", "backend", "javascript", "html", "css">>,
   mobile |-> <<"mobile development", "ios", "android", "react native", "apps">>,
   database |-> <<"data storage", "sql", "nosql", "mongodb", "postgresql">>,
   api |-> <<"rest", "graphql", "web services", "integration", "microservices">>,
   devops |-> <<"ci/cd", "automation", "deployment", "monitoring", "infrastructure">>]

termMap ==
  [ai |-> <<"artificial intelligence", "machine learning", "neural networks",
            "deep learning">>,
   ml |-> <<"machine learning", "algorithms", "predictive models", "data science">>,
   data |-> <<"analytics", "database", "big data", "information">>,
   cloud |-> <<"aws", "azure", "scalability", "distributed systems">>,
   security |-> <<"cybersecurity", "encryption", "authentication", "threats">>,
   web |-> <<"frontend", "backend", "javascript", "html", "css", "react">>,
   mobile |-> <<"ios", "android", "react native", "flutter", "app development">>,
   database |-> <<"sql", "nosql", "mongodb", "postgresql", "data storage">>,
   api |-> <<"rest", "graphql", "microservices", "integration">>,
   devops |-> <<"ci/cd", "docker", "kubernetes", "automation">>]

\* the related terms of every word of words that is a key of table, in order
RECURSIVE RelatedOf(_, _)
RelatedOf(words, table) ==
  IF words = <<>> THEN <<>>
  ELSE (IF Head(words) \in DOMAIN table THEN table[Head(words)] ELSE <<>>)
       \o RelatedOf(Tail(words), table)

getRelatedTerms(queryWords) == RelatedOf(queryWords, termMap)

expandQueryForSmallKb(queryWords) ==
  AddAllUnique(AddAllUnique(<<>>, queryWords), RelatedOf(queryWords, synonymMap))

Some(q, Test(_)) == \E i \in 1..Len(q) : Test(q[i])

analyzeQueryIntent(queryWords, doc) ==
  LET asks(cues) == Some(queryWords, LAMBDA w : w \in cues)
      has(text) == Includes(doc.content, text)
  IN (IF /\ asks({"how", "guide", "tutorial", "steps", "process", "method"})
         /\ has("##") \/ has("###") \/ has("- ")
      THEN 15000 ELSE 0)
     + (IF /\ asks({"what", "definition", "meaning", "explain", "overview"})
           /\ \/ Includes(doc.title, "Fundamentals")
              \/ Includes(doc.title, "Overview")
              \/ has("## What")
        THEN 12000 ELSE 0)
     + (IF /\ asks({"vs", "versus", "compare", "difference", "better", "best"})
           /\ has("vs") \/ has("versus") \/ has("Advantages:") \/ has("Disadvantages:")
        THEN 18000 ELSE 0)
     + (IF /\ asks({"code", "implementation", "api", "framework", "library", "architecture"})
           /\ \/ has(Fence)
              \/ has(BackQuote)
              \/ InSeq("api", doc.tags)
              \/ InSeq("framework", doc.tags)
        THEN 20000 ELSE 0)

createQueryEmbedding(queryWords, vocabulary) ==
  [index \in 1..Min(EMBEDDING_SIZE, Len(vocabulary)) |->
     IF InSeq(vocabulary[index], queryWords) THEN 1 ELSE 0]

\* the digits kept under the square root, so that the arithmetic stays in range
RootDigits(product) ==
  IF product <= 2147 THEN 1000
  ELSE IF product <= 214748 THEN 100
  ELSE IF product <= 21474836 THEN 10 ELSE 1

\* dotProduct / (sqrt(normA) * sqrt(normB)), in millionths
cosineSimilarity(a, b) ==
  LET n == Min(Len(a), Len(b))
      dotProduct == SumSeq([i \in 1..n |-> a[i] * b[i]])
      normA == SumSeq([i \in 1..n |-> a[i] * a[i]])
      normB == SumSeq([i \in 1..n |-> b[i] * b[i]])
      digits == RootDigits(normA * normB)
      root == Isqrt(normA * normB * digits * digits)
      whole == (dotProduct * digits * 1000) \div root
      part == (((dotProduct * digits * 1000) % root) * 1000) \div root
  IN IF normA = 0 \/ normB = 0 THEN 0 ELSE whole * 1000 + part

temporalTerms == {"recent", "latest", "new", "current", "modern", "2024", "2025"}

temporalKeywords ==
  <<"recent", "latest", "new", "current", "modern", "2024", "2025", "advances",
    "breakthroughs", "developments", "trends", "emerging", "cutting-edge",
    "state-of-the-art">>

futureTerms ==
  <<"future", "emerging", "evolving", "advancing", "progress", "innovation",
    "next-generation", "upcoming">>

\* Math.round(x / d) for x >= 0
RoundDiv(x, d) == (2 * x + d) \div (2 * d)

MIN_SCORE == 8
SCORE_SCALE == 2000

\* the raw score of one candidate, in thousandths
RawScore(query, queryWords, expandedQuery, docEntry, vocabulary) ==
  LET doc == docEntry.document
      lowerTitle == toLowerCase(doc.title)
      lowerContent == toLowerCase(doc.content)
      lowerQuery == toLowerCase(query)
      pairs == 1..(Len(queryWords) - 1)
      \* 1. TF-IDF
      tfidfScore ==
        SumSeq([i \in 1..Len(expandedQuery) |->
                  IF expandedQuery[i] \in DOMAIN docEntry.tfidfVector
                  THEN Max(docEntry.tfidfVector[expandedQuery[i]], 0) ELSE 0])
      \* 2. topics
      topicMatches ==
        CountSeq(expandedQuery,
                 LAMBDA w : Some(docEntry.topics, LAMBDA t : Includes(t, w) \/ Includes(w, t)))
      \* 4. two-word phrases
      phraseScore ==
        SumSeq([i \in pairs |->
                  LET phrase == queryWords[i] \o " " \o queryWords[i + 1]
                  IN (IF Includes(lowerTitle, phrase) THEN 40000 ELSE 0)
                     + (IF Includes(lowerContent, phrase) THEN 25000 ELSE 0)])
      \* 5. tags
      tagMatches ==
        SumSeq([i \in 1..Len(expandedQuery) |->
                  CountSeq(doc.tags,
                           LAMBDA tag : \/ Includes(toLowerCase(tag), expandedQuery[i])
                                        \/ Includes(expandedQuery[i], toLowerCase(tag)))])
      \* 6. embeddings
      similarity ==
        cosineSimilarity(createQueryEmbedding(expandedQuery, vocabulary), docEntry.embeddings)
      \* 7. coverage
      uniqueQueryWords == SeqToSet(queryWords)
      queryCoverage == Cardinality({w \in uniqueQueryWords : Includes(lowerContent, w)})
      \* 8. proximity
      proximityScore ==
        SumSeq([i \in pairs |->
                  ProximityMatches(lowerContent, 1, queryWords[i], queryWords[i + 1]) * 8000])
      \* 9. - 11. headers, code, lists
      hitsIn(captures) ==
        SumSeq([i \in 1..Len(captures) |->
                  CountSeq(queryWords, LAMBDA w : Includes(toLowerCase(captures[i]), w))])
      \* 12. - 13. density and length
      allWords == SplitWs(doc.content)
      wordCount == Len(allWords)
      uniqueWords == Cardinality(SeqToSet(SplitWs(lowerContent)))
      \* 14. file name
      filenameMatches ==
        CountSeq(queryWords, LAMBDA w : Includes(toLowerCase(doc.source), w))
      \* 15. temporal
      temporalScore ==
        IF ~Some(queryWords, LAMBDA w : w \in temporalTerms) THEN 0
        ELSE CountSeq(temporalKeywords, LAMBDA k : Includes(lowerContent, k)) * 20000
             + CountSeq(temporalKeywords, LAMBDA k : Includes(lowerTitle, k)) * 30000
             + CountSeq(futureTerms, LAMBDA k : Includes(lowerContent, k)) * 12000
      \* 17. cross references
      crossRefs == CountSeq(getRelatedTerms(queryWords), LAMBDA t : Includes(lowerContent, t))
  IN (tfidfScore * 150) \div 1000
     + topicMatches * 50000
     + (IF Includes(lowerTitle, lowerQuery) THEN 120000 ELSE 0)
     + (IF Includes(lowerContent, lowerQuery) THEN 80000 ELSE 0)
     + phraseScore
     + tagMatches * 15000
     + (IF similarity > 100000 THEN (similarity * 35) \div 1000 ELSE 0)
     + (queryCoverage * 30000) \div Cardinality(uniqueQueryWords)
     + proximityScore
     + hitsIn(HeaderCaptures(doc.content, 1)) * 12000
     + hitsIn(CodeMatches(doc.content, 1)) * 10000
     + hitsIn(ListCaptures(doc.content, 1)) * 6000
     + (IF 10 * uniqueWords > 3 * wordCount THEN (uniqueWords * 15000) \div wordCount ELSE 0)
     + (IF wordCount > 500 THEN 10000 ELSE 0)
     + (IF wordCount > 1000 THEN 15000 ELSE 0)
     + (IF wordCount > 2000 THEN 20000 ELSE 0)
     + filenameMatches * 8000
     + temporalScore
     + analyzeQueryIntent(queryWords, doc)
     + crossRefs * 5000
     + doc.relevance * 8

\* Math.min(Math.round((score / 2000) * 100), 100), score in thousandths
NormalizeScore(score) == Min(RoundDiv(score * 100, SCORE_SCALE * 1000), 100)

WithScore(doc, searchScore) ==
  [id |-> doc.id, title |-> doc.title, content |-> doc.content, tags |-> doc.tags,
   source |-> doc.source, relevance |-> doc.relevance, searchScore |-> searchScore]

\* a result list left in the order in which it was scored
ScoredOrder(results) == results

\* a sort by score that puts the later of two equal scores first
RECURSIVE SortLatestFirst(_)
SortLatestFirst(results) ==
  IF results = <<>> THEN <<>>
  ELSE LET x == results[Len(results)]
           sorted == SortLatestFirst(SubSeq(results, 1, Len(results) - 1))
           before == {i \in 1..Len(sorted) : sorted[i].searchScore > x.searchScore}
           k == IF before = {} THEN 0 ELSE MaxOf(before)
       IN SubSeq(sorted, 1, k) \o <<x>> \o SubSeq(sorted, k + 1, Len(sorted))

\* results.sort((a, b) => b.searchScore - a.searchScore): a stable insertion
RECURSIVE SortByScore(_)
SortByScore(results) ==
  IF results = <<>> THEN <<>>
  ELSE LET x == results[Len(results)]
           sorted == SortByScore(SubSeq(results, 1, Len(results) - 1))
           before == {i \in 1..Len(sorted) : sorted[i].searchScore >= x.searchScore}
           k == IF before = {} THEN 0 ELSE MaxOf(before)
       IN SubSeq(sorted, 1, k) \o <<x>> \o SubSeq(sorted, k + 1, Len(sorted))

\* the documents of the postings of the expanded terms, in first-seen order
RECURSIVE CandidateDocIds(_, _, _)
CandidateDocIds(expandedQuery, invertedIndex, seen) ==
  IF expandedQuery = <<>> THEN seen
  ELSE CandidateDocIds(
         Tail(expandedQuery), invertedIndex,
         IF Head(expandedQuery) \in DOMAIN invertedIndex
         THEN AddAllUnique(seen, invertedIndex[Head(expandedQuery)].documents)
         ELSE seen)

\* knowledgeBaseIndex.documentIndex[docId]
EntryOf(documentIndex, docId) ==
  documentIndex[CHOOSE i \in 1..Len(documentIndex) : documentIndex[i].id = docId]

HasEntry(documentIndex, docId) == \E i \in 1..Len(documentIndex) : documentIndex[i].id = docId

\* every candidate that has an index entry with its raw score, in first-seen order
ScoredCandidates(query, ix) ==
  LET queryWords == tokenizeAndNormalize(query)
      expandedQuery == expandQueryForSmallKb(queryWords)
      ids == SelectSeq(CandidateDocIds(expandedQuery, ix.invertedIndex, <<>>),
                       LAMBDA d : HasEntry(ix.documentIndex, d))
  IN [i \in 1..Len(ids) |->
        [doc |-> EntryOf(ix.documentIndex, ids[i]).document,
         score |-> RawScore(query, queryWords, expandedQuery,
                            EntryOf(ix.documentIndex, ids[i]), ix.vocabulary)]]

\* a threshold applied to the normalized score
PassesNormalized(score) == NormalizeScore(score) > 0

\* if (score > 8) results.push({...doc, searchScore: normalizedScore})
PassesThreshold(score) == score > MIN_SCORE * 1000

ScoredResults(scored) ==
  LET kept == SelectSeq(scored, LAMBDA c : PassesThreshold(c.score))
  IN [i \in 1..Len(kept) |-> WithScore(kept[i].doc, NormalizeScore(kept[i].score))]

\* a search that cuts the list before it sorts it
SliceThenSort(results, maxResults) == SortByScore(Slice0(results, maxResults))

\* .sort(...).slice(0, maxResults)
TopResults(results, maxResults) == Slice0(SortByScore(results), maxResults)

basicStopWords ==
  {"what", "is", "are", "the", "how", "why", "when", "where", "can", "could", "would",
   "should", "do", "does", "did", "a", "an", "and", "or", "but", "in", "on", "at", "to",
   "for", "of", "with", "by", "from", "about", "search", "find", "tell", "me", "give",
   "show", "explain", "describe", "want", "know", "need", "help"}

\* Math.min(Math.round((score / 50) * 100), 100)
NormalizeBasic(score) == Min(RoundDiv(score * 100, 50), 100)

searchDocumentsBasic(query, documents, maxResults) ==
  LET queryWords == SelectSeq(SplitWs(toLowerCase(query)),
                              LAMBDA w : Len(w) > 2 /\ w \notin basicStopWords)
      score(doc) ==
        10 * CountSeq(queryWords, LAMBDA w : Includes(toLowerCase(doc.title), w))
        + 5 * CountSeq(queryWords, LAMBDA w : Includes(toLowerCase(doc.content), w))
      matched == SelectSeq(documents, LAMBDA doc : score(doc) > 0)
  IN IF queryWords = <<>> THEN <<>>
     ELSE TopResults([i \in 1..Len(matched) |->
                        WithScore(matched[i], NormalizeBasic(score(matched[i])))],
                     maxResults)

\* synonymMap[word] and invertedIndex[term] of a word every object inherits are
\* no array and no index entry: forEach throws, the catch falls back to the basic search
LookupThrows(expandedQuery) == SeqToSet(expandedQuery) \cap ProtoKeys # {}

searchDocuments(query, documents, maxResults, ix) ==
  LET queryWords == tokenizeAndNormalize(query)
  IN IF ix = NULL THEN searchDocumentsBasic(query, documents, maxResults)
     ELSE IF queryWords = <<>> THEN <<>>
     ELSE IF LookupThrows(expandQueryForSmallKb(queryWords))
          THEN searchDocumentsBasic(query, documents, maxResults)
     ELSE TopResults(ScoredResults(ScoredCandidates(query, ix)), maxResults)

-----------------------------------------------------------------------------
(* The document source: the knowledge-base directory *)

\* a < b in code-unit order
StrLess(a, b) ==
  LET n == Min(Len(a), Len(b))
      diff == {i \in 1..n : Char(a, i) # Char(b, i)}
  IN IF diff = {} THEN Len(a) < Len(b)
     ELSE IndexOfChar(Char(a, MinOf(diff)), CharOrder) < IndexOfChar(Char(b, MinOf(diff)), CharOrder)

\* fs.readdirSync(dir).filter(file => file.endsWith('.md')).sort()
MarkdownFiles(d) ==
  LET md == {f \in d.files : EndsWith(f.name, ".md")}
  IN [k \in 1..Cardinality(md) |->
        CHOOSE f \in md : Cardinality({g \in md : StrLess(g.name, f.name)}) = k - 1]

\* a loop that gives up at a file that cannot be read
AbortingParse(files) ==
  IF \E i \in 1..Len(files) : ~files[i].readable THEN <<>>
  ELSE [i \in 1..Len(files) |-> parseMarkdownDocument(files[i].content, files[i].name)]

\* the for loop over the files: a file that cannot be read is skipped
RECURSIVE ParseFiles(_)
ParseFiles(files) ==
  IF files = <<>> THEN <<>>
  ELSE (IF Head(files).readable
        THEN <<parseMarkdownDocument(Head(files).content, Head(files).name)>>
        ELSE <<>>)
       \o ParseFiles(Tail(files))

File(name, content) == [name |-> name, content |-> content, readable |-> TRUE]
Locked(name) == [name |-> name, content |-> "", readable |-> FALSE]
Dir(files) == [exists |-> TRUE, listable |-> TRUE, files |-> files]

FileAi ==
  File("01-ai-models.md",
       "# AI Models Guide\n\nMachine learning models learn.\n## Machine code\n- new api ~learn~")
FileCloud == File("02-cloud.md", "# Cloud\n\nCloud models scale on aws.\n\n\n\n**Latest** trends.")
FileNotes == File("notes.txt", "cloud api notes")
FileWeb == File("03-web.md", "The constructor pattern of web api")
FileDupA == File("a-b.md", "alpha cloud")
FileDupB == File("a_b.md", "beta cloud")

DiskMissing == [exists |-> FALSE, listable |-> FALSE, files |-> {}]
DiskUnlistable == [exists |-> TRUE, listable |-> FALSE, files |-> {FileAi}]
DiskNoMarkdown == Dir({FileNotes})
DiskLocked == Dir({Locked("01-ai-models.md"), Locked("02-cloud.md")})
DiskTwo == Dir({FileCloud, FileAi, FileNotes})
DiskOne == Dir({FileAi, FileNotes})
DiskOneLocked == Dir({FileAi, Locked("02-cloud.md")})
DiskPoison == Dir({FileAi, FileWeb})
DiskDup == Dir({FileDupA, FileDupB})

\* twelve small documents that all hold the word cloud
DiskTwelve ==
  Dir({File("d" \o Char(DigitChars, 1 + (i \div 10)) \o Char(DigitChars, 1 + (i % 10)) \o ".md",
            IF i % 2 = 0 THEN "cloud" ELSE "cloud api")
       : i \in 1..12})

\* three documents about cloud: the first in file order scores lowest
DiskRanked ==
  Dir({File("a-one.md", "rain and cloud"),
       File("b-two.md", "# Cloud\n\ncloud cloud api"),
       File("c-three.md", "# Cloud guide\n\ncloud")})

\* one document that holds the letters of cloud inside another word
DiskCloudy == Dir({File("weather.md", "cloudy skies")})

\* two documents whose ids are numbers: readdir().sort() lists 10.md before 9.md
DiskNumbered == Dir({File("10.md", "cloud ten"), File("9.md", "cloud nine")})

\* two documents that hold one related term of security each among filler words:
\* the first scores just above the threshold, the second below it
DiskFaint ==
  Dir({File("a.md", "infosec" \o Repeat(" zzz", 11)),
       File("b.md", "protection" \o Repeat(" zzz", 23)),
       File("c.md", "rain")})

\* two documents with one content: only the second is titled with the words "Cloud API"
TitledPair(content) ==
  Dir({File("notes-a.md", "# Overview\n\n" \o content),
       File("notes-b.md", "# Cloud API\n\n" \o content)})

DiskTitled == TitledPair(Repeat("## Cloud API\n", 3))

\* the same pair with a long content: a heading on the subject for each of its sections
LongSections == 56

DiskTitledLong == TitledPair(Repeat("## Cloud API\n", LongSections))

\* a document of more tokens than the tokenizer keeps, beside a short one
LongRepeats == 501

DiskLong ==
  Dir({File("long.md", Repeat("Abc, the xyz! ", LongRepeats)), File("c.md", "rain abc")})

Disks ==
  {DiskMissing, DiskUnlistable, DiskNoMarkdown, DiskLocked, DiskTwo, DiskOne,
   DiskOneLocked, DiskPoison, DiskDup, DiskTwelve, DiskRanked, DiskCloudy, DiskNumbered,
   DiskFaint}

-----------------------------------------------------------------------------
(* Index lifecycle cache: loadKnowledgeBaseDocuments of the knowledge route *)

\* a cache without the age comparison: an installed index is used for ever
NeverExpires(ix, t) == ix # NULL

\* a cache that is never used: every access reads the directory
NeverFresh(ix, t) == FALSE

\* knowledgeBaseIndex && (now - knowledgeBaseIndex.lastIndexed) < CACHE_TTL
IsFresh(ix, t) == ix # NULL /\ (t - ix.lastIndexed) < CACHE_TTL

\* Object.values(knowledgeBaseIndex.documentIndex).map(entry => entry.document)
\* a key that is an array index (decimal digits without a leading zero; up to nine
\* digits here): an object lists such keys first, in ascending numeric order, and
\* the other keys after them in insertion order
IsArrayIndex(id) ==
  /\ Len(id) \in 1..9
  /\ \A i \in 1..Len(id) : Char(id, i) \in DigitSet
  /\ Len(id) = 1 \/ Char(id, 1) # "0"

\* the position of entry i of documentIndex in Object.values(documentIndex)
ValuesRank(documentIndex, i, numeric) ==
  IF i \in numeric
  THEN 1 + Cardinality({j \in numeric :
                          \/ Len(documentIndex[j].id) < Len(documentIndex[i].id)
                          \/ /\ Len(documentIndex[j].id) = Len(documentIndex[i].id)
                             /\ StrLess(documentIndex[j].id, documentIndex[i].id)})
  ELSE Cardinality(numeric) + Cardinality({j \in 1..i : j \notin numeric})

ObjectValues(documentIndex, numeric) ==
  [k \in 1..Len(documentIndex) |->
     documentIndex[CHOOSE i \in 1..Len(documentIndex) :
                     ValuesRank(documentIndex, i, numeric) = k]]

ValuesOf(documentIndex) ==
  ObjectValues(documentIndex,
               {i \in 1..Len(documentIndex) : IsArrayIndex(documentIndex[i].id)})

IndexedDocuments(ix) ==
  [k \in 1..Len(ix.documentIndex) |-> ValuesOf(ix.documentIndex)[k].document]

\* a loader whose catch block leaves the installed index alone
KeepPrevious(ix, t) == IF ix = NULL THEN createEmptyIndex(t) ELSE ix

\* the index installed when the rebuild fails: the catch block of the loader
FailedRebuild(ix, t) == createEmptyIndex(t)

\* [index: the global afterwards, documents: the value returned,
\*  reads: how many times the directory was read]
\* knowledgeBaseIndex = buildKnowledgeBaseIndex(documents, now); return documents
InstallBuilt(ix, t, documents, built) ==
  IF built = Thrown
  THEN [index |-> FailedRebuild(ix, t), documents |-> <<>>, reads |-> 1]
  ELSE [index |-> built, documents |-> documents, reads |-> 1]

IndexParsed(ix, t, documents) ==
  InstallBuilt(ix, t, documents, buildKnowledgeBaseIndex(documents, t))

IndexFiles(ix, t, files) ==
  IF files = <<>>
  THEN [index |-> createEmptyIndex(t), documents |-> <<>>, reads |-> 1]
  ELSE IndexParsed(ix, t, ParseFiles(files))

loadKnowledgeBaseDocuments(ix, t, d) ==
  IF IsFresh(ix, t)
  THEN [index |-> ix, documents |-> IndexedDocuments(ix), reads |-> 0]
  ELSE IF ~d.exists
  THEN [index |-> createEmptyIndex(t), documents |-> <<>>, reads |-> 1]
  ELSE IF ~d.listable
  THEN [index |-> FailedRebuild(ix, t), documents |-> <<>>, reads |-> 1]
  ELSE IndexFiles(ix, t, MarkdownFiles(d))

-----------------------------------------------------------------------------
(* POST /api/knowledge and GET /api/knowledge *)

\* value of a string of decimal digits
RECURSIVE DigitsValue(_)
DigitsValue(s) ==
  IF s = "" THEN 0
  ELSE 10 * DigitsValue(Sub(s, 1, Len(s) - 1)) + (IndexOfChar(Char(s, Len(s)), DigitChars) - 1)

\* a property of the JSON body: missing, or a string (a number is its decimal text)
Absent == [present |-> FALSE, text |-> ""]
Text(s) == [present |-> TRUE, text |-> s]

\* parseInt(raw) of a decimal string, or of a missing property
\* the sign and the leading digits of t
LeadingDigits(digits) ==
  Sub(digits, 1, MinOf({i \in 1..(Len(digits) + 1) : Char(digits, i) \notin DigitSet}) - 1)

SignedValue(negative, leading) ==
  IF leading = "" THEN NaN
  ELSE Num(IF negative THEN 0 - DigitsValue(leading) ELSE DigitsValue(leading))

ParseTrimmed(t) ==
  SignedValue(Char(t, 1) = "-",
              LeadingDigits(IF Char(t, 1) \in {"+", "-"} THEN Sub(t, 2, Len(t)) ELSE t))

parseInt(raw) == IF ~raw.present THEN NaN ELSE ParseTrimmed(Trim(raw.text))

\* Math.min(parseInt(body.maxResults) || MAX_RESULTS, 10)
OrDefault(n) == IF n.nan \/ n.v = 0 THEN MAX_RESULTS ELSE n.v

RequestedMaxResults(raw) == Min(OrDefault(parseInt(raw)), HARD_MAX_RESULTS)

\* (body.query || '').toString().trim()
RequestedQuery(raw) == IF ~raw.present THEN "" ELSE Trim(raw.text)

\* a length check that already rejects MAX_QUERY_LENGTH characters
TooLongFrom(query) == Len(query) >= MAX_QUERY_LENGTH

TooShort(query) == query = "" \/ Len(query) < MIN_QUERY_LENGTH
TooLong(query) == Len(query) > MAX_QUERY_LENGTH

ErrTooShort == "Query must be at least 2 characters long"
ErrTooLong == "Query is too long (max 500 characters)"
\* the message of a failure that is not an Error object
ErrUnknown == "Unknown error"
ErrNoDocuments == "No documents available in knowledge base"
ErrNullBody == "Cannot read properties of null (reading 'query')"
NoError == ""

Response(status, success, error, results, totalDocuments) ==
  [status |-> status, success |-> success, error |-> error, results |-> results,
   totalDocuments |-> totalDocuments]

\* the content of a result cut to MAX_CONTENT_LENGTH characters
TrimContent(doc) ==
  IF Len(doc.content) > MAX_CONTENT_LENGTH
  THEN [doc EXCEPT !.content = Sub(doc.content, 1, MAX_CONTENT_LENGTH) \o "..."]
  ELSE doc

Body(query, maxResults) == [query |-> query, maxResults |-> maxResults]

\* the JSON value null sent as the request body
NullBody == [json |-> "null"]

IdleRequest ==
  [pc |-> "idle", body |-> NULL, query |-> "", maxResults |-> 0, at |-> 0,
   documents |-> <<>>, results |-> <<>>, response |-> NULL]

\* the history the properties speak about: when the directory was read, from
\* which directory the installed index was rebuilt, and the last cache access
LogAccess(h, t, before, res, d) ==
  [h EXCEPT !.rebuilds = IF res.reads > 0 THEN Append(@, t) ELSE @,
            !.rebuiltFrom = IF res.reads > 0 THEN d ELSE @,
            !.lastAccess = [at |-> t, before |-> before, after |-> res.index,
                            documents |-> res.documents, reads |-> res.reads,
                            disk |-> d]]

\* a request arrives: the handler runs up to await request.json()
Receive(r, b) ==
  /\ req[r].pc \in {"idle", "done"}
  /\ hist.posts + hist.chats < MaxRequests
  /\ req' = [req EXCEPT ![r] = [IdleRequest EXCEPT !.pc = "json", !.body = b]]
  /\ hist' = [hist EXCEPT !.posts = @ + 1]
  /\ UNCHANGED <<now, disk, knowledgeBaseIndex, info, dynamicSearchEngine, chat>>

Finish(r, response) ==
  req' = [req EXCEPT ![r].pc = "done", ![r].response = response]

\* the documents come from the cache and the handler awaits them
Access(r, query, maxResults, res) ==
  /\ knowledgeBaseIndex' = res.index
  /\ req' = [req EXCEPT ![r].pc = "loaded", ![r].query = query,
                         ![r].maxResults = maxResults, ![r].at = now,
                         ![r].documents = res.documents]
  /\ hist' = LogAccess(hist, now, knowledgeBaseIndex, res, disk)

Validate(r, query, maxResults) ==
  IF TooShort(query)
  THEN /\ Finish(r, Response(400, FALSE, ErrTooShort, <<>>, 0))
       /\ UNCHANGED <<knowledgeBaseIndex, hist>>
  ELSE IF TooLong(query)
  THEN /\ Finish(r, Response(400, FALSE, ErrTooLong, <<>>, 0))
       /\ UNCHANGED <<knowledgeBaseIndex, hist>>
  ELSE Access(r, query, maxResults,
              loadKnowledgeBaseDocuments(knowledgeBaseIndex, now, disk))

\* the body is validated and the documents are loaded through the cache:
\* the handler runs up to await loadKnowledgeBaseDocuments()
Load(r) ==
  /\ req[r].pc = "json"
  /\ IF req[r].body = NullBody
     THEN /\ Finish(r, Response(500, FALSE, ErrNullBody, <<>>, 0))
          /\ UNCHANGED <<knowledgeBaseIndex, hist>>
     ELSE Validate(r, RequestedQuery(req[r].body.query),
                   RequestedMaxResults(req[r].body.maxResults))
  /\ UNCHANGED <<now, disk, info, dynamicSearchEngine, chat>>

\* the documents came back: the handler runs searchDocuments up to await Promise.race
Search(r) ==
  /\ req[r].pc = "loaded"
  /\ IF req[r].documents = <<>>
     THEN Finish(r, Response(503, FALSE, ErrNoDocuments, <<>>, 0))
     ELSE req' = [req EXCEPT ![r].pc = "searched",
                             ![r].results = searchDocuments(req[r].query, req[r].documents,
                                                            req[r].maxResults,
                                                            knowledgeBaseIndex)]
  /\ UNCHANGED <<now, disk, knowledgeBaseIndex, info, dynamicSearchEngine, chat, hist>>

\* the search result came back: the contents are trimmed and the response is sent
Respond(r) ==
  /\ req[r].pc = "searched"
  /\ Finish(r, Response(200, TRUE, NoError,
                        [i \in 1..Len(req[r].results) |-> TrimContent(req[r].results[i])],
                        Len(req[r].documents)))
  /\ UNCHANGED <<now, disk, knowledgeBaseIndex, info, dynamicSearchEngine, chat, hist>>

\* fs.readdirSync(dir).filter(f => f.endsWith('.md')).length
DocumentsAvailable(d) == IF d.exists THEN Len(MarkdownFiles(d)) ELSE 0

IndexStatus(ix, t) ==
  IF ix # NULL
  THEN [isIndexed |-> TRUE, indexedDocuments |-> ix.totalDocuments,
        vocabularySize |-> Len(ix.vocabulary), averageDocLength |-> ix.averageDocumentLength,
        indexAge |-> t - ix.lastIndexed]
  ELSE [isIndexed |-> FALSE, indexedDocuments |-> 0, vocabularySize |-> 0,
        averageDocLength |-> Num(0), indexAge |-> 0]

\* an introspection call that goes through the cache like a search does
DescribeLoading ==
  /\ knowledgeBaseIndex' = loadKnowledgeBaseDocuments(knowledgeBaseIndex, now, disk).index
  /\ info' = [status |-> 200, documentsAvailable |-> DocumentsAvailable(disk),
              indexStatus |-> IndexStatus(knowledgeBaseIndex', now)]
  /\ info' # info
  /\ UNCHANGED <<now, disk, req, dynamicSearchEngine, chat, hist>>

\* GET /api/knowledge: one step, the handler awaits nothing
Describe ==
  /\ info' = IF disk.exists /\ ~disk.listable THEN [status |-> 500]
             ELSE [status |-> 200, documentsAvailable |-> DocumentsAvailable(disk),
                   indexStatus |-> IndexStatus(knowledgeBaseIndex, now)]
  /\ info' # info
  /\ UNCHANGED <<now, disk, knowledgeBaseIndex, req, dynamicSearchEngine, chat, hist>>

-----------------------------------------------------------------------------
(* The environment: the clock and the knowledge-base directory *)

TickSteps == {1, CACHE_TTL - 1}

Tick(d) ==
  /\ hist.ticks < MaxTicks
  /\ now' = now + d
  /\ hist' = [hist EXCEPT !.ticks = @ + 1]
  /\ UNCHANGED <<disk, knowledgeBaseIndex, req, info, dynamicSearchEngine, chat>>

ChangeDisk(d) ==
  /\ hist.changes < MaxDiskChanges
  /\ d # disk
  /\ disk' = d
  /\ hist' = [hist EXCEPT !.changes = @ + 1]
  /\ UNCHANGED <<now, knowledgeBaseIndex, req, info, dynamicSearchEngine, chat>>

-----------------------------------------------------------------------------
(* The chat route: DynamicSearchEngine and its lazy initialisation *)

engineStopWords ==
  {"the", "a", "an", "and", "or", "but", "in", "on", "at", "to", "for", "of", "with", "by",
   "is", "are", "was", "were", "be", "been", "being", "have", "has", "had", "do", "does",
   "did", "will", "would", "could", "should", "may", "might", "must", "can", "this",
   "that", "these", "those", "i", "you", "he", "she", "it", "we", "they", "me", "him",
   "her", "us", "them", "my", "your", "his", "its", "our", "their", "what", "which",
   "who", "when", "where", "why", "how", "all", "any", "both", "each", "few", "more",
   "most", "other", "some", "such", "no", "nor", "not", "only", "own", "same", "so",
   "than", "too", "very"}

\* DynamicSearchEngine.tokenize
tokenize(text) ==
  SelectSeq(SplitWs(ReplaceNonWord(toLowerCase(text))),
            LAMBDA word : Len(word) > 2 /\ word \notin engineStopWords)

termExpansions ==
  ("ai" :> <<"artificial intelligence", "machine learning", "neural networks",
             "deep learning">>)
  @@ ("machine learning" :> <<"ml", "artificial intelligence", "algorithms",
                              "data science", "predictive models">>)
  @@ ("data science" :> <<"analytics", "statistics", "data analysis", "machine learning",
                          "big data">>)
  @@ ("cloud" :> <<"cloud computing", "aws", "azure", "gcp", "scalability",
                   "distributed systems">>)
  @@ ("security" :> <<"cybersecurity", "infosec", "encryption", "authentication",
                      "threats">>)
  @@ ("web" :> <<"web development", "frontend", "backend", "javascript", "html", "css">>)
  @@ ("mobile" :> <<"mobile development", "ios", "android", "react native", "flutter">>)
  @@ ("database" :> <<"data storage", "sql", "nosql", "mongodb", "postgresql">>)
  @@ ("api" :> <<"rest", "graphql", "web services", "integration", "microservices">>)
  @@ ("devops" :> <<"ci/cd", "automation", "deployment", "monitoring", "infrastructure">>)

\* the loader of the chat route: no cache, every call reads the directory
loadChatDocuments(d) ==
  IF ~d.exists \/ ~d.listable THEN <<>> ELSE ParseFiles(MarkdownFiles(d))

createDocumentVector(doc) ==
  LET words == tokenize(toLowerCase(doc.title \o " " \o doc.content))
  IN [id |-> doc.id, title |-> doc.title, content |-> doc.content, tags |-> doc.tags,
      tfidfVector |-> <<>>, documentLength |-> Len(words),
      termFrequency |-> [t \in SeqToSet(words) |-> CountIn(words, t)]]

\* new DynamicSearchEngine()
NewEngine ==
  [documents |-> <<>>, idfScores |-> <<>>, totalDocuments |-> 0,
   averageDocumentLength |-> Num(0), initialized |-> FALSE]

\* calculateIDF: the IDF table, in millionths
EngineIdf(documents, totalDocuments) ==
  LET terms == UNION {DOMAIN documents[i].termFrequency : i \in 1..Len(documents)}
  IN [t \in terms |->
        LnRatio(totalDocuments,
                1 + Cardinality({i \in 1..Len(documents) : t \in DOMAIN documents[i].termFrequency}))]

\* calculateIDF: the TF-IDF vectors
EngineTfIdf(documents, idfScores) ==
  [i \in 1..Len(documents) |->
     [documents[i] EXCEPT !.tfidfVector =
        [t \in DOMAIN documents[i].termFrequency |->
           TfIdf(documents[i].termFrequency[t], documents[i].documentLength, idfScores[t])]]]

\* DynamicSearchEngine.initialize(docs)
initialize(docs) ==
  LET vectors == [i \in 1..Len(docs) |-> createDocumentVector(docs[i])]
      idfScores == EngineIdf(vectors, Len(docs))
  IN [documents |-> EngineTfIdf(vectors, idfScores),
      idfScores |-> idfScores,
      totalDocuments |-> Len(docs),
      averageDocumentLength |->
        AverageLength(SumSeq([i \in 1..Len(vectors) |-> vectors[i].documentLength]), Len(docs)),
      initialized |-> TRUE]

expandQuery(query) ==
  LET originalTerms == tokenize(query)
  IN AddAllUnique(AddAllUnique(<<>>, originalTerms), RelatedOf(originalTerms, termExpansions))

IdfOf(engine, term) == IF term \in DOMAIN engine.idfScores THEN engine.idfScores[term] ELSE 0

\* a query vector whose second loop sets the weight of every expanded term, the
\* original terms among them
OverwrittenQueryVector(engine, query) ==
  LET originalTerms == tokenize(query)
      expandedTerms == expandQuery(query)
  IN [terms |-> originalTerms,
      weights |-> [t \in SeqToSet(originalTerms) \cup SeqToSet(expandedTerms) |->
                     (IdfOf(engine, t) * 7) \div 10],
      expandedTerms |-> expandedTerms]

\* [terms, weights, expandedTerms]; the weights are in millionths
createQueryVector(engine, query) ==
  LET originalTerms == tokenize(query)
      expandedTerms == expandQuery(query)
  IN [terms |-> originalTerms,
      weights |-> [t \in SeqToSet(originalTerms) \cup SeqToSet(expandedTerms) |->
                     IF InSeq(t, originalTerms) THEN (IdfOf(engine, t) * 15) \div 10
                     ELSE (IdfOf(engine, t) * 7) \div 10],
      expandedTerms |-> expandedTerms]

\* BM25 with k1 = 1.5 and b = 0.75, in millionths
calculateBM25Score(engine, queryVector, doc) ==
  LET tfOf(t) == IF t \in DOMAIN doc.termFrequency THEN doc.termFrequency[t] ELSE 0
      \* documentLength / averageDocumentLength, in thousandths
      ratio == (doc.documentLength * 1000000) \div engine.averageDocumentLength.v
      \* tf + k1 * (1 - b + b * ratio), in thousandths
      denominator(t) == tfOf(t) * 1000 + (1500 * (250 + (750 * ratio) \div 1000)) \div 1000
      \* tf * (k1 + 1) / denominator, in thousandths
      gain(t) == (tfOf(t) * 2500 * 1000) \div denominator(t)
      terms == {t \in DOMAIN queryVector.weights : tfOf(t) > 0 /\ IdfOf(engine, t) > 0}
  IN SumOver(terms, [t \in terms |-> (IdfOf(engine, t) \div 1000) * gain(t)])

\* cosine of the query weights and the TF-IDF vector of the document, in thousandths
calculateCosineSimilarity(queryVector, doc) ==
  LET q == [t \in DOMAIN queryVector.weights |-> queryVector.weights[t] \div 1000]
      d == [t \in DOMAIN doc.tfidfVector |-> doc.tfidfVector[t] \div 1000]
      shared == DOMAIN q \cap DOMAIN d
      dotProduct == SumOver(shared, [t \in shared |-> q[t] * d[t]])
      queryMagnitude == Isqrt(SumOver(DOMAIN q, [t \in DOMAIN q |-> q[t] * q[t]]))
      docMagnitude == Isqrt(SumOver(DOMAIN d, [t \in DOMAIN d |-> d[t] * d[t]]))
  IN IF queryMagnitude = 0 \/ docMagnitude = 0 THEN 0
     ELSE ((dotProduct \div queryMagnitude) * 1000) \div docMagnitude

\* title, tag and content matches of the original terms
calculateContextualScore(queryVector, doc) ==
  LET titleWords == tokenize(doc.title)
      content == toLowerCase(doc.content)
  IN 20 * CountSeq(queryVector.terms, LAMBDA term : InSeq(term, titleWords))
     + 15 * CountSeq(queryVector.terms,
                     LAMBDA term : Some(doc.tags, LAMBDA tag : \/ Includes(toLowerCase(tag), term)
                                                               \/ Includes(term, toLowerCase(tag))))
     + 5 * CountSeq(queryVector.terms, LAMBDA term : Includes(content, term))

\* bm25 * 0.4 + cosine * 0.4 + contextual * 0.2, in thousandths
CombinedScore(engine, queryVector, doc) ==
  (calculateBM25Score(engine, queryVector, doc) * 4) \div 10000
  + (calculateCosineSimilarity(queryVector, doc) * 4) \div 10
  + calculateContextualScore(queryVector, doc) * 200

\* the percentage without the upper clamp
Unclamped(score) == RoundDiv(score * 100, 10000)

\* Math.min(Math.round((score / 10) * 100), 100), score in thousandths
NormalizeCombined(score) == Min(RoundDiv(score * 100, 10000), 100)

\* DynamicSearchEngine.search(query, maxResults)
EngineSearch(engine, query, maxResults) ==
  LET queryVector == createQueryVector(engine, query)
      scored == [i \in 1..Len(engine.documents) |->
                   [id |-> engine.documents[i].id, title |-> engine.documents[i].title,
                    content |-> engine.documents[i].content, tags |-> engine.documents[i].tags,
                    source |-> engine.documents[i].id, relevance |-> 500,
                    searchScore |-> CombinedScore(engine, queryVector, engine.documents[i])]]
      top == Slice0(SortByScore(scored), maxResults)
  IN IF engine.documents = <<>> THEN <<>>
     ELSE [i \in 1..Len(top) |->
             [top[i] EXCEPT !.searchScore = NormalizeCombined(top[i].searchScore)]]

-----------------------------------------------------------------------------
(* POST /api/chat up to the knowledge search; the call of the n8n webhook that
   follows it does not touch the search engine *)

DEFAULT_CHAT_RESULTS == 5

Slots == {1, 2}
ChatSlots == {1, 2}

IdleChat == [pc |-> "idle", message |-> Absent, documents |-> <<>>, results |-> <<>>, status |-> 0]

\* a chat request arrives: the handler runs up to await request.json()
ChatReceive(c, m) ==
  /\ chat[c].pc \in {"idle", "done"}
  /\ hist.posts + hist.chats < MaxRequests
  /\ chat' = [chat EXCEPT ![c] = [IdleChat EXCEPT !.pc = "json", !.message = m]]
  /\ hist' = [hist EXCEPT !.chats = @ + 1]
  /\ UNCHANGED <<now, disk, knowledgeBaseIndex, req, info, dynamicSearchEngine>>

\* the message is validated and initializeDynamicSearch is entered: with no engine
\* yet, one is constructed and assigned, and the handler runs up to
\* await loadKnowledgeBaseDocuments()
ChatBegin(c) ==
  /\ chat[c].pc = "json"
  /\ IF ~chat[c].message.present \/ chat[c].message.text = ""
     THEN /\ chat' = [chat EXCEPT ![c].pc = "done", ![c].status = 400]
          /\ UNCHANGED <<dynamicSearchEngine, hist>>
     ELSE IF dynamicSearchEngine = NULL
     THEN /\ dynamicSearchEngine' = NewEngine
          /\ chat' = [chat EXCEPT ![c].pc = "loading",
                                   ![c].documents = loadChatDocuments(disk)]
          /\ hist' = [hist EXCEPT !.engineLoads = @ + 1]
     ELSE /\ chat' = [chat EXCEPT ![c].pc = "ready"]
          /\ UNCHANGED <<dynamicSearchEngine, hist>>
  /\ UNCHANGED <<now, disk, knowledgeBaseIndex, req, info>>

\* the documents came back: dynamicSearchEngine.initialize(documents)
ChatInitialize(c) ==
  /\ chat[c].pc = "loading"
  /\ dynamicSearchEngine' = initialize(chat[c].documents)
  /\ chat' = [chat EXCEPT ![c].pc = "ready"]
  /\ hist' = [hist EXCEPT !.engineInits = @ + 1]
  /\ UNCHANGED <<now, disk, knowledgeBaseIndex, req, info>>

\* a job queue in which no continuation is ahead of another
NoneAhead(c) == {}

\* the continuations queued ahead of the one that resumes request c after
\* await initializeDynamicSearch(): the job queue is first in, first out, and the
\* continuation of await loadKnowledgeBaseDocuments() was queued in the step that
\* constructed the engine, before any request could find the engine in place
QueuedAhead(c) == {d \in ChatSlots \ {c} : chat[d].pc = "loading"}

\* searchKnowledgeBase resumes after await initializeDynamicSearch()
ChatSearch(c) ==
  /\ chat[c].pc = "ready"
  /\ QueuedAhead(c) = {}
  /\ chat' = [chat EXCEPT ![c].pc = "done", ![c].status = 200,
                           ![c].results = EngineSearch(dynamicSearchEngine,
                                                       chat[c].message.text,
                                                       DEFAULT_CHAT_RESULTS)]
  /\ UNCHANGED <<now, disk, knowledgeBaseIndex, req, info, dynamicSearchEngine, hist>>

-----------------------------------------------------------------------------
(* The service under concurrent requests, a moving clock and a changing directory *)

LifecycleBodies == {Body(Text("cloud"), Absent)}
LifecycleMessages == {Text("cloud api")}
LifecycleDisks == {DiskTwo, DiskOne, DiskMissing, DiskUnlistable}

InitHist ==
  [ticks |-> 0, changes |-> 0, posts |-> 0, chats |-> 0, rebuilds |-> <<>>,
   rebuiltFrom |-> NULL, lastAccess |-> NULL, engineLoads |-> 0, engineInits |-> 0]

Init ==
  /\ now = 0
  /\ disk = DiskTwo
  /\ knowledgeBaseIndex = NULL
  /\ req = [r \in Slots |-> IdleRequest]
  /\ info = NULL
  /\ dynamicSearchEngine = NULL
  /\ chat = [c \in ChatSlots |-> IdleChat]
  /\ hist = InitHist

Next ==
  \/ \E r \in Slots, b \in LifecycleBodies : Receive(r, b)
  \/ \E r \in Slots : Load(r)
  \/ \E r \in Slots : Search(r)
  \/ \E r \in Slots : Respond(r)
  \/ \E c \in ChatSlots, m \in LifecycleMessages : ChatReceive(c, m)
  \/ \E c \in ChatSlots : ChatBegin(c)
  \/ \E c \in ChatSlots : ChatInitialize(c)
  \/ \E c \in ChatSlots : ChatSearch(c)
  \/ \E d \in TickSteps : Tick(d)
  \/ \E d \in LifecycleDisks : ChangeDisk(d)

Spec == Init /\ [][Next]_vars

-----------------------------------------------------------------------------
(* One request against every document source: the inputs of a search *)

LongWord == Repeat("x", MAX_QUERY_LENGTH - 6)

\* queries of 500 and of 501 characters
Query500 == "cloud " \o LongWord
Query501 == Query500 \o "x"

SearchQueries ==
  {"", "a", " a ", "ab", "the is a", "zebra", "security", "machine learning", "latest cloud trends",
   "how to guide api", Query500, Query501, "  " \o Query500 \o "\n"}

MaxResultsInputs ==
  {Absent, Text("0"), Text("-1"), Text("-3"), Text("2"), Text("10"), Text("50"), Text("abc")}

SearchBodies ==
  {Body(Text(q), Absent) : q \in SearchQueries}
  \cup {Body(Text(q), m) : q \in {"cloud", "constructor cloud cloud cloud cloud"},
                           m \in MaxResultsInputs}
  \cup {Body(Absent, Absent), NullBody}

SearchMessages ==
  {Absent, Text(""), Text("the is a"), Text("zebra"), Text("cloud api"),
   Text("What is machine learning api?"), Text("security rain")}

\* no request was received yet
FirstRequest == hist.posts + hist.chats = 0

\* the service has just started, or has served a search from this directory before
InitSearch ==
  /\ now = 0
  /\ disk \in Disks
  /\ knowledgeBaseIndex \in {NULL, loadKnowledgeBaseDocuments(NULL, now, disk).index}
  /\ req = [r \in Slots |-> IdleRequest]
  /\ info = NULL
  /\ dynamicSearchEngine = NULL
  /\ chat = [c \in ChatSlots |-> IdleChat]
  /\ hist = InitHist

NextSearch ==
  \/ \E b \in SearchBodies : FirstRequest /\ Receive(1, b)
  \/ Load(1)
  \/ Search(1)
  \/ Respond(1)
  \/ Describe
  \/ \E m \in SearchMessages : FirstRequest /\ ChatReceive(1, m)
  \/ ChatBegin(1)
  \/ ChatInitialize(1)
  \/ ChatSearch(1)

SpecSearch == InitSearch /\ [][NextSearch]_vars

-----------------------------------------------------------------------------
(* The same search asked twice of an unchanged directory, as time passes *)

RepeatDisks == {DiskTwo, DiskDup, DiskNumbered, DiskRanked, DiskPoison, DiskMissing}

RepeatBodies ==
  {Body(Text("cloud"), Absent), Body(Text("cloud"), Text("2")),
   Body(Text("constructor cloud cloud cloud cloud"), Absent)}

InitRepeat ==
  /\ now = 0
  /\ disk \in RepeatDisks
  /\ knowledgeBaseIndex = NULL
  /\ req = [r \in Slots |-> IdleRequest]
  /\ info = NULL
  /\ dynamicSearchEngine = NULL
  /\ chat = [c \in ChatSlots |-> IdleChat]
  /\ hist = InitHist

NextRepeat ==
  \/ \E b \in RepeatBodies : FirstRequest /\ Receive(1, b)
  \/ hist.posts = 1 /\ Receive(2, req[1].body)
  \/ \E r \in Slots : Load(r)
  \/ \E r \in Slots : Search(r)
  \/ \E r \in Slots : Respond(r)
  \/ \E d \in TickSteps : Tick(d)

SpecRepeat == InitRepeat /\ [][NextRepeat]_vars

-----------------------------------------------------------------------------
(* Introspection beside a search, as the snapshot ages *)

DescribeDisks == {DiskTwo, DiskDup, DiskMissing, DiskUnlistable, DiskLocked}

InitDescribe ==
  /\ now = 0
  /\ disk \in DescribeDisks
  /\ knowledgeBaseIndex = NULL
  /\ req = [r \in Slots |-> IdleRequest]
  /\ info = NULL
  /\ dynamicSearchEngine = NULL
  /\ chat = [c \in ChatSlots |-> IdleChat]
  /\ hist = InitHist

NextDescribe ==
  \/ FirstRequest /\ Receive(1, Body(Text("cloud"), Absent))
  \/ Load(1)
  \/ Search(1)
  \/ Respond(1)
  \/ \E d \in TickSteps : Tick(d)
  \/ Describe

SpecDescribe == InitDescribe /\ [][NextDescribe]_vars

-----------------------------------------------------------------------------
(* One query against documents that differ in their title only *)

PhraseDisks == Disks \cup {DiskTitled, DiskTitledLong, DiskLong}

InitPhrase ==
  /\ now = 0
  /\ disk \in PhraseDisks
  /\ knowledgeBaseIndex = NULL
  /\ req = [r \in Slots |-> IdleRequest]
  /\ info = NULL
  /\ dynamicSearchEngine = NULL
  /\ chat = [c \in ChatSlots |-> IdleChat]
  /\ hist = InitHist

NextPhrase ==
  \/ FirstRequest /\ Receive(1, Body(Text("cloud api"), Absent))
  \/ Load(1)
  \/ Search(1)
  \/ Respond(1)
  \/ Describe

SpecPhrase == InitPhrase /\ [][NextPhrase]_vars

-----------------------------------------------------------------------------
(* One request for every key of the related-terms tables *)

ExpandDisks == {DiskTwo, DiskFaint}

ExpandQueries == DOMAIN synonymMap \cup {"zebra", "machine learning"}

ExpandMessages == DOMAIN termExpansions \cup {"zebra"}

InitExpand ==
  /\ now = 0
  /\ disk \in ExpandDisks
  /\ knowledgeBaseIndex = NULL
  /\ req = [r \in Slots |-> IdleRequest]
  /\ info = NULL
  /\ dynamicSearchEngine = NULL
  /\ chat = [c \in ChatSlots |-> IdleChat]
  /\ hist = InitHist

NextExpand ==
  \/ \E q \in ExpandQueries : FirstRequest /\ Receive(1, Body(Text(q), Absent))
  \/ Load(1)
  \/ Search(1)
  \/ Respond(1)
  \/ \E m \in ExpandMessages : FirstRequest /\ ChatReceive(1, Text(m))
  \/ ChatBegin(1)
  \/ ChatInitialize(1)
  \/ ChatSearch(1)

SpecExpand == InitExpand /\ [][NextExpand]_vars

-----------------------------------------------------------------------------
(* Properties of the index cache, checked under Spec *)

\* ids of the documents a rebuild from directory d reads
SourceIds(d) ==
  IF ~d.exists \/ ~d.listable THEN {}
  ELSE {DocumentId(f.name) : f \in {g \in d.files : EndsWith(g.name, ".md") /\ g.readable}}

\* the last access found a snapshot with documents whose age had reached the TTL,
\* and the directory was missing or could not be listed
FailedTtlRebuild(a) ==
  /\ a # NULL
  /\ a.before # NULL
  /\ a.before.totalDocuments >= 1
  /\ a.at - a.before.lastIndexed >= CACHE_TTL
  /\ (~a.disk.exists \/ ~a.disk.listable)

\* C1: when a snapshot with at least one document is installed and the rebuild
\* triggered by TTL expiry fails because the directory is missing or unreadable,
\* the previously installed snapshot stays installed unchanged.
C1_FailedRebuildKeepsSnapshot ==
  FailedTtlRebuild(hist.lastAccess) /\ hist.rebuilds[Len(hist.rebuilds)] = hist.lastAccess.at
    => knowledgeBaseIndex = hist.lastAccess.before

\* every IDF is final, every entry has its TF-IDF vector, the totals are set
FullyBuilt(ix) ==
  /\ \A t \in DOMAIN ix.invertedIndex :
       ix.invertedIndex[t].idf
         = LnRatio(ix.totalDocuments, 1 + Len(ix.invertedIndex[t].documents))
  /\ \A i \in 1..Len(ix.documentIndex) :
       /\ DOMAIN ix.documentIndex[i].tfidfVector = DOMAIN ix.documentIndex[i].termFrequency
       /\ \A t \in DOMAIN ix.documentIndex[i].termFrequency :
            ix.documentIndex[i].tfidfVector[t]
              = (ix.documentIndex[i].termFrequency[t] * ix.invertedIndex[t].idf)
                  \div ix.documentIndex[i].length
  /\ ix.totalDocuments = Len(ix.documentIndex)
  /\ ~ix.averageDocumentLength.nan
  /\ ix.totalDocuments > 0 =>
       ix.averageDocumentLength.v
         = (SumSeq([i \in 1..Len(ix.documentIndex) |-> ix.documentIndex[i].length]) * 1000) \div ix.totalDocuments

\* C2: under every interleaving of concurrent POST requests, the index a search
\* reads is fully built: the global only ever holds a completed index.
C2_IndexFullyBuilt == knowledgeBaseIndex # NULL => FullyBuilt(knowledgeBaseIndex)

\* two requests are in flight at once, both about to search an index with documents
C2_Witness ==
  /\ \A r \in Slots : req[r].pc = "loaded"
  /\ knowledgeBaseIndex # NULL
  /\ knowledgeBaseIndex.totalDocuments >= 2

\* what the last access did, by the age of the snapshot it found
CacheContract(a) ==
  /\ a.before # NULL /\ a.at - a.before.lastIndexed < CACHE_TTL =>
       /\ a.reads = 0
       /\ a.after = a.before
       /\ a.documents = IndexedDocuments(a.before)
  /\ a.before # NULL /\ a.at - a.before.lastIndexed > CACHE_TTL =>
       /\ a.reads = 1
       /\ a.after.lastIndexed = a.at
       /\ {a.after.documentIndex[i].id : i \in 1..Len(a.after.documentIndex)}
            = SourceIds(a.disk)
  /\ a.before = NULL =>
       /\ a.reads = 1
       /\ a.after.lastIndexed = a.at
       /\ {a.after.documentIndex[i].id : i \in 1..Len(a.after.documentIndex)}
            = SourceIds(a.disk)

\* C3: an access that finds a snapshot younger than the TTL rebuilds nothing and
\* returns the snapshot's documents; an access that finds no snapshot, or one older
\* than the TTL, rebuilds exactly once from the current directory and installs the
\* result with lastIndexed set to the access time.
C3_TtlCache == hist.lastAccess # NULL => CacheContract(hist.lastAccess)

\* the snapshot of an earlier rebuild was found older than the TTL and was rebuilt
C3_Witness ==
  /\ hist.lastAccess # NULL
  /\ hist.lastAccess.before # NULL
  /\ hist.lastAccess.at - hist.lastAccess.before.lastIndexed > CACHE_TTL
  /\ Len(hist.rebuilds) = 2

\* C4: concurrent requests that find the index absent or stale cause one rebuild
\* for that staleness event: the directory is not read again until the installed
\* snapshot has aged by the TTL; and the chat route's engine is loaded and
\* initialised from the directory at most once.
C4_SingleWriter ==
  /\ \A i \in 1..(Len(hist.rebuilds) - 1) :
       hist.rebuilds[i + 1] - hist.rebuilds[i] >= CACHE_TTL
  /\ hist.engineLoads <= 1
  /\ hist.engineInits <= 1

\* two concurrent searches were served by one rebuild, two concurrent chats by one engine
C4_Witness ==
  \/ /\ hist.posts = 2
     /\ \A r \in Slots : req[r].pc = "loaded"
     /\ Len(hist.rebuilds) = 1
  \/ /\ hist.chats = 2
     /\ \A c \in ChatSlots : chat[c].pc = "done" /\ chat[c].status = 200
     /\ hist.engineInits = 1

\* entries, postings and vocabulary of ix are those of the documents with these ids
BuiltFrom(ix, ids) ==
  /\ {ix.documentIndex[i].id : i \in 1..Len(ix.documentIndex)} = ids
  /\ \A t \in DOMAIN ix.invertedIndex :
       /\ SeqToSet(ix.invertedIndex[t].documents) # {}
       /\ SeqToSet(ix.invertedIndex[t].documents) \subseteq ids
       /\ \A i \in 1..Len(ix.documentIndex) :
            InSeq(ix.documentIndex[i].id, ix.invertedIndex[t].documents)
              <=> t \in DOMAIN ix.documentIndex[i].termFrequency
  /\ SeqToSet(ix.vocabulary) = DOMAIN ix.invertedIndex
  /\ \A i \in 1..Len(ix.documentIndex) :
       DOMAIN ix.documentIndex[i].termFrequency \subseteq DOMAIN ix.invertedIndex

-----------------------------------------------------------------------------
(* Properties of one search, checked under SpecSearch *)

\* C6: a query that after trimming is shorter than 2 or longer than 500 characters
\* is rejected with status 400 and an empty result list before the cache is
\* accessed, so the index is neither rebuilt nor replaced; a query of trimmed
\* length 2..500 is never rejected as invalid.
C6_QueryLengthValidated ==
  \A r \in Slots :
    req[r].pc = "done" /\ req[r].body # NullBody =>
      /\ Len(RequestedQuery(req[r].body.query)) \notin 2..500 =>
           /\ req[r].response.status = 400
           /\ ~req[r].response.success
           /\ req[r].response.results = <<>>
           /\ hist.lastAccess = NULL
           /\ hist.rebuilds = <<>>
      /\ Len(RequestedQuery(req[r].body.query)) \in 2..500 =>
           req[r].response.status # 400

\* a query of 501 characters was rejected
C6_Witness ==
  /\ req[1].pc = "done"
  /\ req[1].body = Body(Text(Query501), Absent)
  /\ req[1].response.status = 400

\* C7: a query of valid length whose token list is empty is answered without an
\* error, and its answer differs from the answer of a search that matched nothing.
C7_NoSearchableTermsReported ==
  \A r \in Slots :
    /\ req[r].pc = "done"
    /\ req[r].documents # <<>>
    /\ tokenizeAndNormalize(req[r].query) = <<>>
    => /\ req[r].response.status = 200
       /\ req[r].response
            # Response(200, TRUE, NoError, <<>>, Len(req[r].documents))

C9_ResultCountBounded ==
  \A r \in Slots :
    req[r].pc = "done" /\ req[r].response.status = 200 =>
      /\ Len(req[r].response.results) <= 10
      /\ Len(req[r].response.results) <= Max(req[r].maxResults, 0)

\* the scores of a result list are integers from 0 to 100
ScoresInRange(results) ==
  \A i \in 1..Len(results) : results[i].searchScore \in 0..100

\* C10: every result of the indexed search, of the basic search and of the chat
\* engine's search carries an integer score from 0 to 100.
C10_ScoresNormalized ==
  /\ \A r \in Slots : ScoresInRange(req[r].results)
  /\ \A c \in ChatSlots : ScoresInRange(chat[c].results)

\* the chat engine returned a result whose score was clamped to 100
C10_Witness ==
  /\ chat[1].pc = "done"
  /\ chat[1].results # <<>>
  /\ chat[1].results[1].searchScore = 100
  /\ disk = DiskPoison

\* the scores of a result list never increase from one result to the next
NonIncreasing(results) ==
  \A i \in 1..(Len(results) - 1) : results[i].searchScore >= results[i + 1].searchScore

\* C11: in every result list returned by a search, of the knowledge route and of
\* the chat engine, the normalized scores are non-increasing from first to last.
C11_ScoresNonIncreasing ==
  /\ \A r \in Slots : NonIncreasing(req[r].results)
  /\ \A c \in ChatSlots : NonIncreasing(chat[c].results)

\* a search returned at least two results with different scores
C11_Witness ==
  \/ \E r \in Slots :
       /\ Len(req[r].results) >= 2
       /\ req[r].results[1].searchScore > req[r].results[Len(req[r].results)].searchScore
  \/ \E c \in ChatSlots :
       /\ Len(chat[c].results) >= 2
       /\ chat[c].results[1].searchScore > chat[c].results[Len(chat[c].results)].searchScore

\* the indexed search of this query neither stops early nor falls back
IndexedPath(queryWords) ==
  queryWords # <<>> /\ ~LookupThrows(expandQueryForSmallKb(queryWords))

\* results are min(k, m) of the m passing candidates, and none left out scores higher
TopOfPassing(results, passing, k) ==
  /\ Len(results) = Min(k, Len(passing))
  /\ \A i \in 1..Len(results) : \E j \in 1..Len(passing) : passing[j] = results[i]
  /\ \A i \in 1..Len(results), j \in 1..Len(passing) :
       (\A h \in 1..Len(results) : results[h].id # passing[j].id)
         => results[i].searchScore >= passing[j].searchScore

\* C12: truncation happens after full scoring: with m candidates passing the
\* threshold and 1 <= maxResults = k <= 10, the indexed search returns exactly
\* min(k, m) results, each scoring at least as high as every passing candidate
\* that was not returned.
C12_TruncationAfterScoring ==
  \A r \in Slots :
    /\ req[r].pc \in {"searched", "done"}
    /\ req[r].documents # <<>>
    /\ req[r].maxResults \in 1..10
    /\ IndexedPath(tokenizeAndNormalize(req[r].query))
    => TopOfPassing(req[r].results,
                    ScoredResults(ScoredCandidates(req[r].query, knowledgeBaseIndex)),
                    req[r].maxResults)

\* three candidates passed, two were asked for, and the candidate seen first,
\* which scores lowest, is the one left out
C12_Witness ==
  /\ disk = DiskRanked
  /\ req[1].pc = "searched"
  /\ req[1].maxResults = 2
  /\ Len(req[1].results) = 2
  /\ \A i \in 1..2 : req[1].results[i].id # "a_one"
  /\ Len(ScoredResults(ScoredCandidates(req[1].query, knowledgeBaseIndex))) = 3

\* the terms under which a document is indexed: the tokens of title and body
IndexedTerms(doc) ==
  SeqToSet(tokenizeAndNormalize(toLowerCase(doc.title \o " " \o doc.content)))

\* every result shares an indexed term with the original or expanded query
SharesTerm(results, terms) ==
  \A i \in 1..Len(results) : IndexedTerms(results[i]) \cap terms # {}

\* C13: a document whose indexed terms hold none of the original or expanded
\* query terms never appears in the result list of searchDocuments.
C13_NoTermNoResult ==
  \A r \in Slots :
    req[r].pc \in {"searched", "done"} =>
      SharesTerm(req[r].results,
                 SeqToSet(expandQueryForSmallKb(tokenizeAndNormalize(req[r].query))))

\* the terms of a document vector of the chat engine
EngineTerms(doc) == SeqToSet(tokenize(toLowerCase(doc.title \o " " \o doc.content)))

\* every result shares a term with the weighted query vector
SharesEngineTerm(results, terms) ==
  \A i \in 1..Len(results) : EngineTerms(results[i]) \cap terms # {}

\* C14: a document that shares no term with the weighted query vector (original
\* or expanded terms) is never in the result list of DynamicSearchEngine.search.
C14_EngineNoTermNoResult ==
  \A c \in ChatSlots :
    chat[c].pc = "done" /\ chat[c].status = 200 =>
      SharesEngineTerm(chat[c].results, SeqToSet(expandQuery(chat[c].message.text)))

-----------------------------------------------------------------------------
(* Properties of a repeated search, checked under SpecRepeat *)

\* C15: for a fixed directory, query and maxResults, two search calls return the
\* same documents in the same order with the same scores, also when a rebuild of
\* the unchanged directory happens between them.
C15_Deterministic ==
  hist.posts = 2 /\ (\A r \in Slots : req[r].pc = "done")
    => req[1].response.results = req[2].response.results

\* two snapshots with the same term frequencies, IDF values, vocabulary and totals
SameStructures(a, b) ==
  /\ Len(a.documentIndex) = Len(b.documentIndex)
  /\ \A i \in 1..Len(a.documentIndex) :
       /\ a.documentIndex[i].id = b.documentIndex[i].id
       /\ a.documentIndex[i].termFrequency = b.documentIndex[i].termFrequency
  /\ DOMAIN a.invertedIndex = DOMAIN b.invertedIndex
  /\ \A t \in DOMAIN a.invertedIndex : a.invertedIndex[t].idf = b.invertedIndex[t].idf
  /\ a.vocabulary = b.vocabulary
  /\ a.totalDocuments = b.totalDocuments
  /\ a.averageDocumentLength = b.averageDocumentLength

-----------------------------------------------------------------------------
(* Properties of the introspection call, checked under SpecDescribe *)

\* what an answered introspection call reports about snapshot ix at time t
ReportsSnapshot(status, ix, t) ==
  IF ix = NULL
  THEN ~status.isIndexed /\ status.indexedDocuments = 0 /\ status.vocabularySize = 0
  ELSE /\ status.isIndexed
       /\ status.indexedDocuments = ix.totalDocuments
       /\ status.vocabularySize = Cardinality(SeqToSet(ix.vocabulary))
       /\ status.averageDocLength = ix.averageDocumentLength
       /\ status.indexAge = t - ix.lastIndexed

\* C17: GET /api/knowledge reports totalDocuments, vocabulary size, average
\* document length and age of the installed snapshot, and leaves the cache as it
\* is: it triggers no rebuild and never creates, replaces or changes the snapshot,
\* be it absent, fresh or stale.
C17_DescribeReadsOnly ==
  [][info' # info =>
       /\ knowledgeBaseIndex' = knowledgeBaseIndex
       /\ hist'.rebuilds = hist.rebuilds
       /\ info'.status = 200 => ReportsSnapshot(info'.indexStatus, knowledgeBaseIndex, now)]_vars

\* the call reported a snapshot older than the TTL, which is still installed
C17_Witness ==
  /\ info # NULL
  /\ info.status = 200
  /\ info.indexStatus.isIndexed
  /\ info.indexStatus.indexAge >= CACHE_TTL
  /\ info.indexStatus.indexedDocuments >= 1
  /\ knowledgeBaseIndex # NULL
  /\ now - knowledgeBaseIndex.lastIndexed >= CACHE_TTL

-----------------------------------------------------------------------------
(* Properties of the title phrase, checked under SpecPhrase *)

\* the title holds the whole query as a phrase, whatever the case of the letters
TitleHoldsQuery(result, query) == Includes(toLowerCase(result.title), toLowerCase(query))

\* C18: of two returned documents with the same content, of which only one holds the
\* whole query as a phrase in its title, the one with the phrase has the strictly
\* greater score
C18_TitlePhraseScoresHigher ==
  \A r \in Slots :
    req[r].pc = "done" /\ req[r].response.status = 200 =>
      \A i, j \in 1..Len(req[r].response.results) :
        LET with == req[r].response.results[i]
            without == req[r].response.results[j]
        IN /\ with.content = without.content
           /\ TitleHoldsQuery(with, req[r].query)
           /\ ~TitleHoldsQuery(without, req[r].query)
           => with.searchScore > without.searchScore

-----------------------------------------------------------------------------
(* Properties of the lazy initialisation of the chat engine, checked under Spec *)

\* request c runs DynamicSearchEngine.search in this step
SearchesNow(c) == chat[c].pc = "ready" /\ chat'[c].pc = "done"

\* initialize has run to its end on the documents it was given
InitializeCompleted(engine) ==
  /\ engine # NULL
  /\ engine.initialized
  /\ engine.totalDocuments = Len(engine.documents)
  /\ \A i \in 1..Len(engine.documents) :
       /\ DOMAIN engine.documents[i].tfidfVector = DOMAIN engine.documents[i].termFrequency
       /\ DOMAIN engine.documents[i].termFrequency \subseteq DOMAIN engine.idfScores
  /\ engine.documents # <<>> => engine.averageDocumentLength # Num(0)

-----------------------------------------------------------------------------
(* Properties of the order of equal scores, checked under SpecSearch *)

\* the place of a result among the passing candidates, which are in first-seen order
SeenAt(passing, result) == CHOOSE j \in 1..Len(passing) : passing[j].id = result.id

Returned(results, candidate) == \E h \in 1..Len(results) : results[h].id = candidate.id

\* equal scores keep the first-seen order, and a candidate that was cut off is seen
\* later than every returned one with its score
StableTies(results, passing) ==
  /\ \A i, j \in 1..Len(results) :
       i < j /\ results[i].searchScore = results[j].searchScore
         => SeenAt(passing, results[i]) < SeenAt(passing, results[j])
  /\ \A i \in 1..Len(results), j \in 1..Len(passing) :
       ~Returned(results, passing[j]) /\ passing[j].searchScore = results[i].searchScore
         => SeenAt(passing, results[i]) < j

\* C20: among candidates with equal normalized score the indexed search keeps the
\* order in which the candidates were first seen, and on truncation it is the
\* later-seen tied candidate that is dropped
C20_StableTieBreak ==
  \A r \in Slots :
    /\ req[r].pc \in {"searched", "done"}
    /\ req[r].documents # <<>>
    /\ IndexedPath(tokenizeAndNormalize(req[r].query))
    => StableTies(req[r].results,
                  ScoredResults(ScoredCandidates(req[r].query, knowledgeBaseIndex)))

\* two returned results are tied, and a candidate tied with the last of them was cut off
TiedAndCut(results, passing) ==
  /\ \E i, j \in 1..Len(results) : i < j /\ results[i].searchScore = results[j].searchScore
  /\ \E j \in 1..Len(passing) :
       /\ ~Returned(results, passing[j])
       /\ passing[j].searchScore = results[Len(results)].searchScore

C20_Witness ==
  /\ req[1].pc = "searched"
  /\ Len(req[1].results) >= 2
  /\ IndexedPath(tokenizeAndNormalize(req[1].query))
  /\ TiedAndCut(req[1].results,
                ScoredResults(ScoredCandidates(req[1].query, knowledgeBaseIndex)))

-----------------------------------------------------------------------------
(* Properties of the score threshold, checked under SpecSearch *)

AboveMinimum(scored) == {i \in 1..Len(scored) : scored[i].score > MIN_SCORE * 1000}

\* every result is a candidate that scored above the minimum, and where the list
\* was not cut every candidate above the minimum is a result
ThresholdKept(results, scored, k) ==
  /\ \A h \in 1..Len(results) :
       \E i \in AboveMinimum(scored) : scored[i].doc.id = results[h].id
  /\ k >= Cardinality(AboveMinimum(scored)) =>
       \A i \in AboveMinimum(scored) :
         \E h \in 1..Len(results) : results[h].id = scored[i].doc.id

\* C21: candidates whose raw score is at or below 8 are discarded before the
\* normalization: every result of the indexed search scored above 8 raw, and every
\* candidate above 8 raw is eligible whatever its normalized score, which may be 0
C21_ThresholdBeforeNormalization ==
  \A r \in Slots :
    /\ req[r].pc \in {"searched", "done"}
    /\ req[r].documents # <<>>
    /\ IndexedPath(tokenizeAndNormalize(req[r].query))
    => ThresholdKept(req[r].results, ScoredCandidates(req[r].query, knowledgeBaseIndex),
                     req[r].maxResults)

\* a candidate was returned with the normalized score 0 and another was discarded
FaintKept(results, scored) ==
  /\ \E h \in 1..Len(results) : results[h].searchScore = 0
  /\ AboveMinimum(scored) # 1..Len(scored)

C21_Witness ==
  /\ req[1].pc = "searched"
  /\ req[1].maxResults >= 1
  /\ IndexedPath(tokenizeAndNormalize(req[1].query))
  /\ FaintKept(req[1].results, ScoredCandidates(req[1].query, knowledgeBaseIndex))

-----------------------------------------------------------------------------
(* Properties of the built statistics, checked under SpecSearch *)

\* the number of documents of the snapshot that contain term t
DocumentFrequency(entries, t) ==
  Cardinality({i \in 1..Len(entries) : t \in DOMAIN entries[i].termFrequency})

\* idf[t] = ln(N / (1 + df[t])) over all the documents of the snapshot
FinalIdf(ix) ==
  \A t \in DOMAIN ix.invertedIndex :
    ix.invertedIndex[t].idf
      = LnRatio(ix.totalDocuments, 1 + DocumentFrequency(ix.documentIndex, t))

\* tfidf[d][t] = (tf[d][t] / length[d]) * idf[t] with the idf of the snapshot
FinalTfIdf(ix) ==
  \A i \in 1..Len(ix.documentIndex) :
    /\ DOMAIN ix.documentIndex[i].tfidfVector = DOMAIN ix.documentIndex[i].termFrequency
    /\ \A t \in DOMAIN ix.documentIndex[i].termFrequency :
         ix.documentIndex[i].tfidfVector[t]
           = TfIdf(ix.documentIndex[i].termFrequency[t], ix.documentIndex[i].length,
                   ix.invertedIndex[t].idf)

\* the same two equations for the engine of the chat route
FinalEngineStatistics(engine) ==
  /\ \A t \in DOMAIN engine.idfScores :
       engine.idfScores[t]
         = LnRatio(engine.totalDocuments, 1 + DocumentFrequency(engine.documents, t))
  /\ \A i \in 1..Len(engine.documents) :
       \A t \in DOMAIN engine.documents[i].termFrequency :
         engine.documents[i].tfidfVector[t]
           = TfIdf(engine.documents[i].termFrequency[t], engine.documents[i].documentLength,
                   engine.idfScores[t])

\* C22: in every built snapshot, idf[t] = ln(N / (1 + df[t])) for every term, with N
\* the total document count and df[t] the number of documents that contain t, and
\* tfidf[d][t] = (tf[d][t] / length[d]) * idf[t] with that final idf
C22_ThreePassStatistics ==
  /\ knowledgeBaseIndex # NULL =>
       FinalIdf(knowledgeBaseIndex) /\ FinalTfIdf(knowledgeBaseIndex)
  /\ dynamicSearchEngine # NULL /\ dynamicSearchEngine.initialized =>
       FinalEngineStatistics(dynamicSearchEngine)

-----------------------------------------------------------------------------
(* Properties of the document entries, checked under SpecPhrase *)

\* the sum of the counts of a term-frequency map
SumCounts(termFrequency) == SumOver(DOMAIN termFrequency, termFrequency)

LengthCountsTokens(entry) ==
  /\ entry.length = SumCounts(entry.termFrequency)
  /\ entry.length <= TOKEN_CAP

\* C23: in every built snapshot the length of each document entry is the number of
\* tokens its term-frequency map was built from, the sum of its counts, and it is at
\* most the tokenizer cap of 1000
C23_EntryLengthIsTokenCount ==
  knowledgeBaseIndex # NULL =>
    \A i \in 1..Len(knowledgeBaseIndex.documentIndex) :
      LengthCountsTokens(knowledgeBaseIndex.documentIndex[i])

\* an entry built from a text of more than 1000 tokens holds exactly 1000, a term
\* counted many times among them
C23_Witness ==
  /\ knowledgeBaseIndex # NULL
  /\ \E i \in 1..Len(knowledgeBaseIndex.documentIndex) :
       LET entry == knowledgeBaseIndex.documentIndex[i]
       IN /\ entry.length = TOKEN_CAP
          /\ Len(SplitWs(entry.document.content)) > TOKEN_CAP
          /\ \E t \in DOMAIN entry.termFrequency : entry.termFrequency[t] > 1

-----------------------------------------------------------------------------
(* Properties of the tokenizer, checked under SpecPhrase *)

\* q.join(' '), by halves
RECURSIVE JoinBetween(_, _, _)
JoinBetween(q, lo, hi) ==
  IF lo > hi THEN ""
  ELSE IF lo = hi THEN q[lo]
  ELSE LET h == (lo + hi) \div 2
       IN JoinBetween(q, lo, h) \o " " \o JoinBetween(q, h + 1, hi)

JoinSpaces(q) == JoinBetween(q, 1, Len(q))

\* the words of a text: its lowercase letters, digits and underscores between
\* anything else
WordsOf(text) == SplitWs(ReplaceNonWord(toLowerCase(text)))

Qualifies(word) == Len(word) > 2 /\ word \notin stopWords

\* the tokens of text are its first qualifying words, in the order of the text
TokensInOrder(out, words) ==
  LET kept == SortedBetween({i \in 1..Len(words) : Qualifies(words[i])}, 1, Len(words))
  IN /\ Len(out) = Min(Len(kept), TOKEN_CAP)
     /\ \A k \in 1..Len(out) : out[k] = words[kept[k]]

TokenizerContract(text, out) ==
  /\ Len(out) <= TOKEN_CAP
  /\ \A k \in 1..Len(out) :
       /\ CharsOf(out[k]) \cap UpperSet = {}
       /\ Len(out[k]) > 2
       /\ out[k] \notin stopWords
  /\ TokensInOrder(out, WordsOf(text))
  /\ tokenizeAndNormalize(JoinSpaces(out)) = out

IndexedText(doc) == toLowerCase(doc.title \o " " \o doc.content)

\* C24: the tokenizer returns, in input order, only lowercase tokens longer than 2
\* that are no stop words, at most 1000 of them, and tokenizing its space-joined
\* output returns the same sequence; every term of a term-frequency map, passed as
\* query text, yields exactly that term
C24_TokenizerRoundTrip ==
  \A r \in Slots :
    req[r].pc \in {"searched", "done"} =>
      /\ TokenizerContract(req[r].query, tokenizeAndNormalize(req[r].query))
      /\ \A i \in 1..Len(req[r].documents) :
           TokenizerContract(IndexedText(req[r].documents[i]),
                             tokenizeAndNormalize(IndexedText(req[r].documents[i])))
      /\ knowledgeBaseIndex # NULL =>
           \A i \in 1..Len(knowledgeBaseIndex.documentIndex) :
             \A t \in DOMAIN knowledgeBaseIndex.documentIndex[i].termFrequency :
               tokenizeAndNormalize(t) = <<t>>

\* a searched request whose query has tokens, over a document with capitals,
\* punctuation and stop words that has more qualifying words than the tokenizer keeps
C24_Witness ==
  /\ req[1].pc = "searched"
  /\ tokenizeAndNormalize(req[1].query) # <<>>
  /\ \E i \in 1..Len(req[1].documents) :
       LET content == req[1].documents[i].content
       IN /\ CharsOf(content) \cap UpperSet # {}
          /\ ReplaceNonWord(content) # content
          /\ SeqToSet(WordsOf(content)) \cap stopWords # {}
          /\ Len(SelectSeq(WordsOf(content), Qualifies)) > TOKEN_CAP

-----------------------------------------------------------------------------
(* Properties of the query vector of the chat route, checked under SpecSearch *)

InVocabulary(engine, t) == t \in DOMAIN engine.idfScores

\* every weighted term is an original term at 1.5 times its idf or an expansion at
\* 0.7 times its idf, and a term the corpus does not hold weighs 0
QueryWeights(engine, vector) ==
  /\ DOMAIN vector.weights = SeqToSet(vector.terms) \cup SeqToSet(vector.expandedTerms)
  /\ \A t \in SeqToSet(vector.terms) :
       vector.weights[t]
         = IF InVocabulary(engine, t) THEN (engine.idfScores[t] * 15) \div 10 ELSE 0
  /\ \A t \in SeqToSet(vector.expandedTerms) \ SeqToSet(vector.terms) :
       vector.weights[t]
         = IF InVocabulary(engine, t) THEN (engine.idfScores[t] * 7) \div 10 ELSE 0

\* the chat requests whose search ran against the initialized engine
ChatSearched == {c \in ChatSlots : chat[c].pc = "done" /\ chat[c].status = 200}

\* C25: in the query vector of createQueryVector every original term weighs
\* idf * 1.5, every expansion term that is no original term weighs idf * 0.7, every
\* term absent from the corpus is present with weight 0, and no original term gets
\* the weight of an expansion
C25_QueryVectorWeights ==
  \A c \in ChatSearched :
    QueryWeights(dynamicSearchEngine,
                 createQueryVector(dynamicSearchEngine, chat[c].message.text))

\* an original term and an expansion term of the corpus with idf other than 0,
\* beside a term the corpus does not hold
WeightsOfEveryKind(engine, vector) ==
  /\ \E t \in SeqToSet(vector.terms) : InVocabulary(engine, t) /\ vector.weights[t] # 0
  /\ \E t \in SeqToSet(vector.expandedTerms) \ SeqToSet(vector.terms) :
       InVocabulary(engine, t) /\ vector.weights[t] # 0
  /\ \E t \in DOMAIN vector.weights : ~InVocabulary(engine, t)

C25_Witness ==
  \E c \in ChatSearched :
    WeightsOfEveryKind(dynamicSearchEngine,
                       createQueryVector(dynamicSearchEngine, chat[c].message.text))

-----------------------------------------------------------------------------
(* Properties of the query expansion, checked under SpecExpand *)

\* a query that is the key k of the table expands to k and the related terms of k;
\* a query without a key of the table expands to its own tokens
ExpandsByTable(table, query, words, expanded) ==
  /\ query \in DOMAIN table =>
       {query} \cup SeqToSet(table[query]) \subseteq SeqToSet(expanded)
  /\ query \notin DOMAIN table /\ SeqToSet(words) \cap DOMAIN table = {} =>
       expanded = AddAllUnique(<<>>, words)

\* C26: for every key k of the related-terms table, "ai" included, the query k is
\* expanded to a term set that holds k and all the related terms of k, and a query
\* without a key is expanded to exactly its own tokens
C26_ExpansionByTable ==
  /\ \A r \in Slots :
       req[r].pc \in {"searched", "done"} =>
         ExpandsByTable(synonymMap, req[r].query, tokenizeAndNormalize(req[r].query),
                        expandQueryForSmallKb(tokenizeAndNormalize(req[r].query)))
  /\ \A c \in ChatSearched :
       ExpandsByTable(termExpansions, chat[c].message.text, tokenize(chat[c].message.text),
                      expandQuery(chat[c].message.text))

-----------------------------------------------------------------------------
(* Properties of a rebuild without documents, checked under SpecSearch *)

\* the last cache access read the directory and came back without documents
RebuiltEmpty ==
  /\ hist.lastAccess # NULL
  /\ hist.lastAccess.reads > 0
  /\ hist.lastAccess.documents = <<>>

\* the engine of the chat route was initialized without documents
EngineEmpty ==
  /\ dynamicSearchEngine # NULL
  /\ dynamicSearchEngine.initialized
  /\ dynamicSearchEngine.totalDocuments = 0

\* C27: a rebuild that ends with zero documents, by any path, installs the empty
\* snapshot: no postings, no entries, no vocabulary, totalDocuments = 0 and
\* averageDocumentLength = 0, a number and never 0 / 0
C27_EmptySnapshotIsDefined ==
  /\ RebuiltEmpty => hist.lastAccess.after = createEmptyIndex(hist.lastAccess.at)
  /\ EngineEmpty => dynamicSearchEngine.averageDocumentLength = Num(0)

-----------------------------------------------------------------------------
(* Properties of a rebuild over files that fail, checked under SpecSearch *)

\* the markdown files of a directory that can be read, in the order of the loader
ReadableFiles(d) == SelectSeq(MarkdownFiles(d), LAMBDA f : f.readable)

\* the last cache access read a directory in which a markdown file failed to be read
RebuiltPastFailure ==
  /\ hist.lastAccess # NULL
  /\ hist.lastAccess.reads > 0
  /\ hist.lastAccess.disk.exists
  /\ hist.lastAccess.disk.listable
  /\ \E f \in hist.lastAccess.disk.files : EndsWith(f.name, ".md") /\ ~f.readable

\* every file that was read has its document returned and its entry in the
\* snapshot, and the snapshot counts these files
OthersIndexed(d, documents, ix) ==
  /\ Len(documents) = Len(ReadableFiles(d))
  /\ \A k \in 1..Len(documents) :
       /\ documents[k].source = ReadableFiles(d)[k].name
       /\ \E i \in 1..Len(ix.documentIndex) : ix.documentIndex[i].document = documents[k]
  /\ ix.totalDocuments = Len(ReadableFiles(d))

\* C28: a source file that fails to be read or parsed is skipped and does not abort
\* the rebuild: every other file is indexed and totalDocuments of the installed
\* snapshot is the number of files that parsed
C28_FailedFileSkipped ==
  RebuiltPastFailure =>
    OthersIndexed(hist.lastAccess.disk, hist.lastAccess.documents, hist.lastAccess.after)

\* a rebuild that skipped a file and indexed another
C28_Witness ==
  /\ RebuiltPastFailure
  /\ hist.lastAccess.after.totalDocuments >= 1
  /\ knowledgeBaseIndex = hist.lastAccess.after

-----------------------------------------------------------------------------
(* Properties of the document identity, checked under SpecRepeat *)

\* one entry for every document of the build, and every posting names an entry
\* that holds its term
UniqueIdentity(ix) ==
  /\ Len(ix.documentIndex) = ix.totalDocuments
  /\ \A t \in DOMAIN ix.invertedIndex :
       \A k \in 1..Len(ix.invertedIndex[t].documents) :
         \E i \in 1..Len(ix.documentIndex) :
           /\ ix.documentIndex[i].id = ix.invertedIndex[t].documents[k]
           /\ t \in DOMAIN ix.documentIndex[i].termFrequency

\* the last cache access was served from the snapshot it found
ServedFromCache ==
  /\ hist.lastAccess # NULL
  /\ hist.lastAccess.reads = 0
  /\ hist.lastAccess.before # NULL

\* C29: in every built snapshot the document identity is unique: the number of
\* entries is totalDocuments, every id of a posting has an entry whose term
\* frequencies hold the term, and a search served from the cached snapshot reports
\* the total of the search that built it, whatever the file names
C29_DocumentIdentityUnique ==
  /\ knowledgeBaseIndex # NULL => UniqueIdentity(knowledgeBaseIndex)
  /\ ServedFromCache =>
       Len(hist.lastAccess.documents) = hist.lastAccess.before.totalDocuments

-----------------------------------------------------------------------------
(* Properties of the snapshot a request works on, checked under Spec *)

\* request r resumes after await loadKnowledgeBaseDocuments() and scores
Scores(r) == req[r].pc = "loaded" /\ req'[r].pc = "searched"

\* the documents are those of the entries of the snapshot
FromSnapshot(documents, ix) ==
  /\ ix # NULL
  /\ SeqToSet(documents) = {ix.documentIndex[i].document : i \in 1..Len(ix.documentIndex)}
  /\ Len(documents) = ix.totalDocuments

\* C30: within one request the document list obtained from the cache, the
\* totalDocuments reported and the index that searchDocuments scores with belong to
\* one snapshot, however other requests that rebuild the global index interleave
C30_OneSnapshotPerRequest ==
  [][\A r \in Slots : Scores(r) => FromSnapshot(req[r].documents, knowledgeBaseIndex)]_vars

====
